---- MODULE Spec2Model ----
(***************************************************************************)
(* A model of raclette's supervisor (src/src/execution.rs): the execute    *)
(* loop that forks one child process per task, multiplexes the children's  *)
(* stdout, stderr and stage-report pipes through one readiness poll, reaps *)
(* the children, enforces the timeout and hands the outcomes to a          *)
(* reporter.  The operating system (the children, their descendants, the   *)
(* kernel pipes, the clock, signals) is the environment of the model.      *)
(***************************************************************************)
EXTENDS Integers, Sequences, FiniteSets, TLC

VARIABLES
    tree,            \* the TestTree handed to make_plan (None once execute runs)
    config,          \* Config: timeout and jobs, each <<>> (None) or <<v>> (Some(v))
    plan,            \* the Vec<Task> handed to execute
    pc,              \* position of the supervisor in execute
    tasks,           \* the pending stack (plan reversed, popped from the end)
    observed_tasks,  \* HashMap<Pid, ObservedTask>: the live map
    completed_pids,  \* scratch Vec<Pid> filled by the reaping loop
    task_results,    \* Vec<CompletedTask> returned by execute
    calls,           \* the calls made on the reporter, in order
    child,           \* the operating system's view of each forked child
    signal,          \* a termination signal is pending for the driver
    budget,          \* what the children may still do (bounds the environment)
    codec,           \* a StreamDecoder fed from a writer, as in the unit test
    orphans,         \* registrations of the poll that outlive their task
    mirror           \* what the driver wrote on its own stdout and stderr

vars == <<tree, config, plan, pc, tasks, observed_tasks, completed_pids,
          task_results, calls, child, signal, budget, codec, orphans,
          mirror>>

-----------------------------------------------------------------------------
(* Bounds of the model.                                                    *)

\* longest plan
MaxPlan == 2
\* what the children of one run may do in all (bytes written to stdout and
\* stderr, stage frames emitted, descendants spawned) when several tasks run
MaxOps == 1
\* the same, in the runs of a single task
MaxOpsOne == 2
\* size of the scratch read buffer (4096 in the source, scaled down: a read
\* holds two stage frames, as a read of 4096 bytes holds several)
BufSize == 4
\* elapsed times are counted up to MaxAge clock units
MaxAge == 2
\* what num_cpus::get() answers
NumCpus == 2
\* bytes of the frame header (size_of::<usize>(), scaled down)
HeaderLen == 1
\* most children of a suite of a test tree
MaxTests == 2
\* largest pid the token round trip is checked for
MaxPid == 16
\* how many stage reports the writer of the codec test writes
MaxFrames == 3
\* how many bytes a test body writes to the stage descriptor by itself
MaxRaw == 4
\* how many stage frames a reporter is handed
MaxStageCalls == 2

\* DEFAULT_TIMEOUT, Duration::from_secs(10), in clock units of 5 s
DEFAULT_TIMEOUT == 2
\* SIGNAL_TOKEN
SIGNAL_TOKEN == 0

-----------------------------------------------------------------------------
(* Values.                                                                 *)

None == <<>>
Some(v) == <<v>>
Unwrap(o) == o[1]
UnwrapOr(o, d) == IF o = <<>> THEN d ELSE o[1]

Min(a, b) == IF a <= b THEN a ELSE b

\* mutant: the plan is left as it is
ReverseNot(s) == s

RECURSIVE Reverse(_)
Reverse(s) == IF s = <<>> THEN <<>> ELSE Append(Reverse(Tail(s)), Head(s))

Take(s, n) == SubSeq(s, 1, Min(n, Len(s)))
Drop(s, n) == SubSeq(s, Min(n, Len(s)) + 1, Len(s))

\* enum Status
Success == [tag |-> "Success"]
Failure(code) == [tag |-> "Failure", code |-> code]
Signaled(sig) == [tag |-> "Signaled", sig |-> sig]
Timeout == [tag |-> "Timeout"]
Skipped(reason) == [tag |-> "Skipped", reason |-> reason]

\* Status::is_ok
is_ok(status) == status.tag \in {"Success", "Skipped"}

\* enum InputSource
Sources == {"Stdout", "Stderr", "Report"}

\* Task::name and CompletedTask::name: the path joined by "::"
RECURSIVE name(_)
name(full_name) ==
    IF full_name = <<>> THEN ""
    ELSE IF Len(full_name) = 1 THEN full_name[1]
    ELSE full_name[1] \o "::" \o name(Tail(full_name))

-----------------------------------------------------------------------------
(* Tokens.                                                                 *)

\* mutant: the pid is shifted by one bit only
make_tokenShiftOne(pid, source) ==
    CASE source = "Stdout" -> pid * 2
      [] source = "Stderr" -> pid * 2 + 1
      [] source = "Report" -> pid * 2 + 2

\* make_token: (pid << 2) | source
make_token(pid, source) ==
    CASE source = "Stdout" -> pid * 4
      [] source = "Stderr" -> pid * 4 + 1
      [] source = "Report" -> pid * 4 + 2

\* split_token: bit 1 set is Report, else bit 0 set is Stderr, else Stdout
split_token(token) ==
    LET src == IF (token \div 2) % 2 = 1 THEN "Report"
               ELSE IF token % 2 = 1 THEN "Stderr"
               ELSE "Stdout"
    IN  <<token \div 4, src>>

-----------------------------------------------------------------------------
(* The stage-report codec.                                                 *)

\* the stages a test body reports, in the order it reports them (StageStatus
\* and StageReport; the duration of a frame is not modelled)
StageSeq == <<[stage_name |-> "s1", status |-> [tag |-> "Success"]],
              [stage_name |-> "s2", status |-> [tag |-> "Failure", code |-> 42]]>>

StageReports == {StageSeq[k] : k \in DOMAIN StageSeq}

\* bincode::serialize of a StageReport: one payload byte per report
serialize(s) == <<10 + (CHOOSE k \in DOMAIN StageSeq : StageSeq[k] = s)>>

\* bincode::deserialize: None when the payload is no StageReport
deserialize(payload) ==
    IF Len(payload) = 1 /\ payload[1] - 10 \in DOMAIN StageSeq
    THEN Some(StageSeq[payload[1] - 10])
    ELSE None

\* usize::to_be_bytes, HeaderLen bytes wide
RECURSIVE to_be_bytes(_, _)
to_be_bytes(n, width) ==
    IF width = 0 THEN <<>>
    ELSE Append(to_be_bytes(n \div 256, width - 1), n % 256)

\* usize::from_be_bytes
RECURSIVE from_be_bytes(_)
from_be_bytes(bytes) ==
    IF bytes = <<>> THEN 0
    ELSE from_be_bytes(SubSeq(bytes, 1, Len(bytes) - 1)) * 256 + bytes[Len(bytes)]

\* StreamDecoder::new
NewDecoder == [buf |-> <<>>, offset |-> 0]

\* mutant: the chunk replaces the buffer
appendReplace(dec, data) == [dec EXCEPT !.buf = data]

\* StreamDecoder::append
append(dec, data) == [dec EXCEPT !.buf = dec.buf \o data]

\* serialize_and_write into a Vec<u8>: the length header, then the payload
serialize_and_write(w, payload) ==
    w \o to_be_bytes(Len(serialize(payload)), HeaderLen) \o serialize(payload)

\* mutant: a frame is decoded and the offset is left where it was
try_decodeNoAdvance(dec) ==
    LET avail == Len(dec.buf) - dec.offset
        payload_size == from_be_bytes(SubSeq(dec.buf, dec.offset + 1, dec.offset + HeaderLen))
        payload == SubSeq(dec.buf, dec.offset + HeaderLen + 1,
                          dec.offset + HeaderLen + payload_size)
    IN  IF avail > HeaderLen /\ avail >= HeaderLen + payload_size
        THEN [dec |-> dec, res |-> deserialize(payload), panic |-> FALSE]
        ELSE [dec |-> dec, res |-> None, panic |-> FALSE]

\* StreamDecoder::try_decode: [dec, res, panic]; res is None or Some(report)
try_decode(dec) ==
    LET avail == Len(dec.buf) - dec.offset
    IN  IF avail > HeaderLen
        THEN LET payload_size ==
                     from_be_bytes(SubSeq(dec.buf, dec.offset + 1, dec.offset + HeaderLen))
             IN  IF avail < HeaderLen + payload_size
                 THEN [dec |-> dec, res |-> None, panic |-> FALSE]
                 ELSE LET payload == SubSeq(dec.buf, dec.offset + HeaderLen + 1,
                                            dec.offset + HeaderLen + payload_size)
                          res == deserialize(payload)
                      IN  IF res = None
                          THEN [dec |-> dec, res |-> None, panic |-> TRUE]
                          ELSE [dec |-> [dec EXCEPT !.offset =
                                             dec.offset + HeaderLen + payload_size],
                                res |-> res, panic |-> FALSE]
        ELSE [dec |-> dec, res |-> None, panic |-> FALSE]

-----------------------------------------------------------------------------
(* Inputs.                                                                 *)

\* the root-to-leaf paths the tasks of a plan may carry
FullNames == {<<"s", "a">>, <<"b">>}

\* Task: full_name and options.skip_reason (work is the child's behaviour)
Tasks == [full_name : FullNames, skip_reason : {None, Some("r")}]

RECURSIVE SeqsUpTo(_, _)
SeqsUpTo(S, n) ==
    IF n = 0 THEN {<<>>}
    ELSE LET shorter == SeqsUpTo(S, n - 1)
         IN  shorter \cup {Append(q, x) : q \in {r \in shorter : Len(r) = n - 1}, x \in S}

\* the plans, up to the choice of the first task's name
Plans == {p \in SeqsUpTo(Tasks, MaxPlan) : p = <<>> \/ p[1].full_name = <<"s", "a">>}

\* Config, the fields execute reads: both unset, both set
Configs == {[timeout |-> None, jobs |-> None, nocapture |-> FALSE],
            [timeout |-> Some(1), jobs |-> Some(1), nocapture |-> FALSE]}

\* let timeout = config.timeout.unwrap_or(DEFAULT_TIMEOUT)
timeout == UnwrapOr(config.timeout, DEFAULT_TIMEOUT)

\* let jobs = config.jobs.unwrap_or_else(num_cpus::get)
jobs == UnwrapOr(config.jobs, NumCpus)

-----------------------------------------------------------------------------
(* The plan builder.  A name is a sequence of characters, so that          *)
(* str::contains is a test on the characters and not an equality of names. *)

\* TreeNode::Leaf and TreeNode::Fork (the assertion of a leaf is the
\* behaviour of its child)
Leaf(n, o) == [kind |-> "Leaf", name |-> n, tests |-> <<>>, options |-> o]
Fork(n, ts, o) == [kind |-> "Fork", name |-> n, tests |-> ts, options |-> o]

\* Options::default()
DefaultOptions == [skip_reason |-> None]

\* Options::inherit: the node's own value if set, else the parent's
inherit(options, parent_opts) ==
    IF options.skip_reason # None THEN options ELSE parent_opts

\* str::contains: f occurs in s as a contiguous run of characters
contains(s, f) ==
    \E k \in 0..(Len(s) - Len(f)) : SubSeq(s, k + 1, k + Len(f)) = f

\* mutant: no filter ever excludes a name
matchesAll(n, filter) == TRUE

\* matches: filter.as_ref().map(|f| name.contains(f)).unwrap_or(true)
matches(n, filter) == IF filter = None THEN TRUE ELSE contains(n, Unwrap(filter))

\* mutant: the skip filters are looked at on the leaves only
skip_filter_appliesToLeaves(cfg, t) ==
    /\ t.kind = "Leaf"
    /\ \E k \in DOMAIN cfg.skip_filters : contains(t.name, cfg.skip_filters[k])

\* config.skip_filters.iter().any(|f| t.name().contains(f))
skip_filter_applies(cfg, t) ==
    \E k \in DOMAIN cfg.skip_filters : contains(t.name, cfg.skip_filters[k])

\* mutant: a task is pushed twice
pushTwice(buf, task) == Append(Append(buf, task), task)

\* mutant: a task is pushed at the front of the plan
pushFront(buf, task) == <<task>> \o buf

\* buf.push(Task {..})
push(buf, task) == Append(buf, task)

\* mutant: a suite hands down its own options only
effective_optsOwn(options, parent_opts) == options

\* let effective_opts = options.inherit(parent_opts)
effective_opts(options, parent_opts) == inherit(options, parent_opts)

RECURSIVE go(_, _, _, _, _, _)
RECURSIVE go_tests(_, _, _, _, _, _)

\* for t in tests { go(filter, config, t, path.clone(), buf, effective_opts.clone()) }
go_tests(filter, cfg, ts, path, buf, opts) ==
    IF ts = <<>> THEN buf
    ELSE go_tests(filter, cfg, Tail(ts), path,
                  go(filter, cfg, Head(ts), path, buf, opts), opts)

\* go: the tasks of the subtree t are pushed onto buf
go(filter, cfg, t, path, buf, parent_opts) ==
    IF t.kind = "Leaf"
    THEN IF ~matches(t.name, filter) \/ skip_filter_applies(cfg, t)
         THEN buf
         ELSE push(buf, [full_name |-> Append(path, t.name),
                         skip_reason |-> inherit(t.options, parent_opts).skip_reason])
    ELSE IF matches(t.name, filter) /\ ~skip_filter_applies(cfg, t)
         THEN go_tests(None, cfg, t.tests, Append(path, t.name), buf,
                       effective_opts(t.options, parent_opts))
         ELSE IF ~skip_filter_applies(cfg, t)
              THEN go_tests(filter, cfg, t.tests, Append(path, t.name), buf,
                            effective_opts(t.options, parent_opts))
              ELSE buf

\* make_plan
make_plan(cfg, t) == go(cfg.filter, cfg, t, <<>>, <<>>, DefaultOptions)

\* the names of the nodes
Names == {<<"a">>, <<"a", "b">>}

\* the trees: a leaf, or a suite of up to MaxTests children, each a leaf or
\* a suite of up to MaxTests leaves; the skip reason a node may set tells
\* its level
LeafTrees == {Leaf(n, [skip_reason |-> o]) : n \in Names, o \in {None, Some("l")}}

InnerTrees ==
    {Fork(n, ts, [skip_reason |-> o]) :
        n \in Names, o \in {None, Some("m")},
        ts \in {q \in SeqsUpTo(LeafTrees, MaxTests) : q # <<>>}}

Trees ==
    LeafTrees \cup
    {Fork(n, ts, [skip_reason |-> o]) :
        n \in Names, o \in {None, Some("r")},
        ts \in {q \in SeqsUpTo(LeafTrees \cup InnerTrees, MaxTests) : q # <<>>}}

\* the filters: none, a character of some names, of one name, of the "::"
\* that joins the names of a path
Filters == {None, Some(<<"a">>), Some(<<"b">>), Some(<<":">>)}

SkipFilters == {<<>>, <<<<"b">>>>, <<<<":">>, <<"a", "b">>>>}

PlanConfigs ==
    [filter : Filters, skip_filters : SkipFilters, timeout : {None}, jobs : {None},
     nocapture : {FALSE}]

-----------------------------------------------------------------------------
(* The operating system: one record per plan task, for the child forked    *)
(* for it.  st is "none" before the fork, then "running", then "exited"    *)
(* (with code), "signaled" (killed by a signal of its own making) or       *)
(* "killed" (by the supervisor's SIGKILL).  desc is the state of a         *)
(* descendant in the child's process group: "holding" the inherited write  *)
(* ends of stdout and stderr, "quiet" once it closed them, or "dead".      *)
(* pipes are the bytes in the kernel not yet read by the supervisor;       *)
(* written are all the bytes ever written, frames the stage frames written *)
(* in full, half the payload of a frame whose header alone is written.     *)

NoChild ==
    [st |-> "none", code |-> 0, pid |-> 0, reaped |-> FALSE, desc |-> "none",
     half |-> <<>>, frames |-> <<>>,
     pipes |-> [Stdout |-> <<>>, Stderr |-> <<>>, Report |-> <<>>],
     written |-> [Stdout |-> <<>>, Stderr |-> <<>>]]

Forked == {i \in DOMAIN child : child[i].st # "none"}

\* a write end of the pipe is open in some process
WritersOpen(c, src) ==
    IF src = "Report" THEN c.st = "running"
    ELSE c.st = "running" \/ c.desc = "holding"

\* the pids fork may return: one no process of this run has had
FreePids == {Cardinality(Forked) + 1}

\* the pids the operating system may hand out again: those of the children
\* whose exit waitpid has collected and whose process group is empty
ReusablePids ==
    {child[i].pid : i \in {j \in Forked : child[j].reaped /\ child[j].desc \in {"none", "dead"}}}

\* killpg(pid, SIGKILL): the leader and every process of its group die
killpg(c) ==
    [c EXCEPT !.st = IF c.st = "running" THEN "killed" ELSE c.st,
              !.half = <<>>,
              !.desc = IF c.desc \in {"holding", "quiet"} THEN "dead" ELSE c.desc]

\* a process of the child's group is still running
GroupAlive(c) == c.st = "running" \/ c.desc \in {"holding", "quiet"}

AtPoll == pc = "poll"

\* what one write call may carry: a byte, or more than a read takes
WriteSizes == {1, BufSize + 1}

\* a process holding the write end writes n bytes in one call
ChildWrite(i, src, n) ==
    /\ AtPoll
    /\ i \in Forked
    /\ src \in {"Stdout", "Stderr"}
    /\ WritersOpen(child[i], src)
    /\ child[i].half = <<>>
    /\ budget > 0
    /\ n \in WriteSizes
    /\ LET b == Len(child[i].written[src])
           data == [k \in 1..n |-> b + k]
       IN  child' = [child EXCEPT ![i].pipes[src] = @ \o data,
                                  ![i].written[src] = @ \o data]
    /\ budget' = budget - 1
    /\ UNCHANGED <<mirror, orphans, codec, tree, config, plan, pc, tasks, observed_tasks, completed_pids,
                   task_results, calls, signal>>

\* b'\n'
Newline == 10

\* what a test body prints in one call: a partial line, or a line and the
\* beginning of the next
Texts == {<<7>>, <<7, Newline, 8>>}

\* a process holding the write end prints a text in one call
ChildWriteText(i, src, data) ==
    /\ AtPoll
    /\ i \in Forked
    /\ src \in {"Stdout", "Stderr"}
    /\ WritersOpen(child[i], src)
    /\ child[i].half = <<>>
    /\ budget > 0
    /\ data \in Texts
    /\ child' = [child EXCEPT ![i].pipes[src] = @ \o data,
                              ![i].written[src] = @ \o data]
    /\ budget' = budget - 1
    /\ UNCHANGED <<mirror, orphans, codec, tree, config, plan, pc, tasks, observed_tasks, completed_pids,
                   task_results, calls, signal>>

\* report_stage_status, first write of serialize_and_write: the header
ChildStageHeader(i, s) ==
    /\ AtPoll
    /\ i \in Forked
    /\ child[i].st = "running"
    /\ child[i].half = <<>>
    /\ budget > 0
    /\ Len(child[i].frames) < Len(StageSeq)
    /\ s = StageSeq[Len(child[i].frames) + 1]
    /\ child' = [child EXCEPT
                    ![i].pipes.Report = @ \o to_be_bytes(Len(serialize(s)), HeaderLen),
                    ![i].half = serialize(s)]
    /\ budget' = budget - 1
    /\ UNCHANGED <<mirror, orphans, codec, tree, config, plan, pc, tasks, observed_tasks, completed_pids,
                   task_results, calls, signal>>

\* second write of serialize_and_write: the payload
ChildStagePayload(i) ==
    /\ AtPoll
    /\ i \in Forked
    /\ child[i].st = "running"
    /\ child[i].half # <<>>
    /\ child' = [child EXCEPT
                    ![i].pipes.Report = @ \o child[i].half,
                    ![i].frames = Append(@, Unwrap(deserialize(child[i].half))),
                    ![i].half = <<>>]
    /\ UNCHANGED <<mirror, orphans, codec, tree, config, plan, pc, tasks, observed_tasks, completed_pids,
                   task_results, calls, signal, budget>>

\* the test body writes, by itself, a whole frame to the stage descriptor
\* whose payload is no serialized StageReport
ChildStageGarbage(i) ==
    /\ AtPoll
    /\ i \in Forked
    /\ child[i].st = "running"
    /\ child[i].half = <<>>
    /\ budget > 0
    /\ child' = [child EXCEPT ![i].pipes.Report = @ \o to_be_bytes(1, HeaderLen) \o <<99>>]
    /\ budget' = budget - 1
    /\ UNCHANGED <<mirror, orphans, codec, tree, config, plan, pc, tasks, observed_tasks, completed_pids,
                   task_results, calls, signal>>

\* the test body returns (exit 0) or panics (a non-zero exit code)
ChildExit(i, code) ==
    /\ AtPoll
    /\ i \in Forked
    /\ child[i].st = "running"
    /\ child[i].half = <<>>
    /\ child' = [child EXCEPT ![i].st = "exited", ![i].code = code]
    /\ UNCHANGED <<mirror, orphans, codec, tree, config, plan, pc, tasks, observed_tasks, completed_pids,
                   task_results, calls, signal, budget>>

\* the child is terminated by a signal (an abort, a segmentation fault)
ChildCrash(i) ==
    /\ AtPoll
    /\ i \in Forked
    /\ child[i].st = "running"
    /\ child' = [child EXCEPT ![i].st = "signaled", ![i].half = <<>>]
    /\ UNCHANGED <<mirror, orphans, codec, tree, config, plan, pc, tasks, observed_tasks, completed_pids,
                   task_results, calls, signal, budget>>

\* the child spawns a process, which inherits its stdout and stderr
DescSpawn(i) ==
    /\ AtPoll
    /\ i \in Forked
    /\ child[i].st = "running"
    /\ child[i].desc = "none"
    /\ budget > 0
    /\ child' = [child EXCEPT ![i].desc = "holding"]
    /\ budget' = budget - 1
    /\ UNCHANGED <<mirror, orphans, codec, tree, config, plan, pc, tasks, observed_tasks, completed_pids,
                   task_results, calls, signal>>

\* the descendant closes its stdout and stderr and keeps running
DescClose(i) ==
    /\ AtPoll
    /\ i \in Forked
    /\ child[i].desc = "holding"
    /\ child' = [child EXCEPT ![i].desc = "quiet"]
    /\ UNCHANGED <<mirror, orphans, codec, tree, config, plan, pc, tasks, observed_tasks, completed_pids,
                   task_results, calls, signal, budget>>

\* the descendant exits
DescExit(i) ==
    /\ AtPoll
    /\ i \in Forked
    /\ child[i].desc \in {"holding", "quiet"}
    /\ child' = [child EXCEPT ![i].desc = "dead"]
    /\ UNCHANGED <<mirror, orphans, codec, tree, config, plan, pc, tasks, observed_tasks, completed_pids,
                   task_results, calls, signal, budget>>

\* started_at.elapsed() grows by one clock unit for every live task
Tick ==
    /\ AtPoll
    /\ \E p \in DOMAIN observed_tasks :
          /\ observed_tasks[p].status_and_duration = None
          /\ observed_tasks[p].elapsed < MaxAge
    /\ observed_tasks' =
          [p \in DOMAIN observed_tasks |->
              IF /\ observed_tasks[p].status_and_duration = None
                 /\ observed_tasks[p].elapsed < MaxAge
              THEN [observed_tasks[p] EXCEPT !.elapsed = @ + 1]
              ELSE observed_tasks[p]]
    /\ UNCHANGED <<mirror, orphans, codec, tree, config, plan, pc, tasks, completed_pids, task_results,
                   calls, child, signal, budget>>

\* the clock advances, for the settled tasks as well: started_at.elapsed()
\* of every live task grows
TickAll ==
    /\ AtPoll
    /\ \E p \in DOMAIN observed_tasks : observed_tasks[p].elapsed < MaxAge
    /\ observed_tasks' =
          [p \in DOMAIN observed_tasks |->
              IF observed_tasks[p].elapsed < MaxAge
              THEN [observed_tasks[p] EXCEPT !.elapsed = @ + 1]
              ELSE observed_tasks[p]]
    /\ UNCHANGED <<mirror, orphans, codec, tree, config, plan, pc, tasks, completed_pids,
                   task_results, calls, child, signal, budget>>

\* a termination signal is sent to the driver
SignalArrives ==
    /\ AtPoll
    /\ ~signal
    /\ signal' = TRUE
    /\ UNCHANGED <<mirror, orphans, codec, tree, config, plan, pc, tasks, observed_tasks, completed_pids,
                   task_results, calls, child, budget>>

-----------------------------------------------------------------------------
(* The supervisor: execute.                                                *)

\* the set of all orders in which the elements of S can be visited
RECURSIVE Orders(_)
Orders(S) ==
    IF S = {} THEN {<<>>}
    ELSE UNION {{<<x>> \o q : q \in Orders(S \ {x})} : x \in S}

\* HashMap::insert
insert(map, key, value) ==
    [k \in DOMAIN map \cup {key} |-> IF k = key THEN value ELSE map[k]]

\* HashMap::remove
remove(map, key) == [k \in DOMAIN map \ {key} |-> map[k]]

\* mutant: a skipped task is reported as a success
skip_taskAsSuccess(task, reason) ==
    [id |-> task.id, full_name |-> task.full_name, duration |-> 0,
     stdout |-> <<>>, stderr |-> <<>>, status |-> Success]

\* skip_task; id is the plan index of the task, kept to tell apart tasks
\* of the same name
skip_task(task, reason) ==
    [id |-> task.id, full_name |-> task.full_name, duration |-> 0,
     stdout |-> <<>>, stderr |-> <<>>, status |-> Skipped(reason)]

\* launch: the record of the forked child, which leads its own process group
launch(pid) == [NoChild EXCEPT !.st = "running", !.pid = pid]

\* observe: the three pipes are registered under the tokens of the pid
observe(task, pid) ==
    [id |-> task.id, full_name |-> task.full_name, pid |-> pid, elapsed |-> 0,
     stdout_pipe |-> TRUE, stderr_pipe |-> TRUE, report_pipe |-> TRUE,
     status_and_duration |-> None,
     stdout_buf |-> <<>>, stderr_buf |-> <<>>,
     stdout_offset |-> 0, stderr_offset |-> 0,
     report_decoder |-> NewDecoder]

\* the entry of execute: report.init(&tasks); tasks.reverse()
Begin ==
    /\ pc = "start"
    /\ calls' = Append(calls, [op |-> "init", len |-> Len(plan)])
    /\ tasks' = Reverse([i \in 1..Len(plan) |->
                            [id |-> i, full_name |-> plan[i].full_name,
                             skip_reason |-> plan[i].skip_reason]])
    /\ pc' = "loop"
    /\ UNCHANGED <<mirror, orphans, codec, tree, config, plan, observed_tasks, completed_pids, task_results,
                   child, signal, budget>>

\* while !tasks.is_empty() || !observed_tasks.is_empty()
LoopCondition == tasks # <<>> \/ DOMAIN observed_tasks # {}

LoopEnter ==
    /\ pc = "loop"
    /\ LoopCondition
    /\ pc' = "admit"
    /\ UNCHANGED <<mirror, orphans, codec, tree, config, plan, tasks, observed_tasks, completed_pids,
                   task_results, calls, child, signal, budget>>

\* after the loop: report.done(); task_results is returned
Finish ==
    /\ pc = "loop"
    /\ ~LoopCondition
    /\ calls' = Append(calls, [op |-> "done"])
    /\ pc' = "returned"
    /\ UNCHANGED <<mirror, orphans, codec, tree, config, plan, tasks, observed_tasks, completed_pids,
                   task_results, child, signal, budget>>

\* mutant: the admission loop lets one child too many in
AdmitConditionOffByOne == Cardinality(DOMAIN observed_tasks) <= jobs

\* mutant: with no job slot at all, one task is still let in
AdmitConditionAtLeastOne ==
    Cardinality(DOMAIN observed_tasks) < (IF jobs = 0 THEN 1 ELSE jobs)

\* while observed_tasks.len() < jobs
AdmitCondition == Cardinality(DOMAIN observed_tasks) < jobs

\* mutant: a skipped task is reported before it is started
AdmitSkipReportFirst ==
    /\ pc = "admit"
    /\ Cardinality(DOMAIN observed_tasks) < jobs
    /\ tasks # <<>>
    /\ LET task == tasks[Len(tasks)]
       IN  /\ task.skip_reason # None
           /\ calls' = calls \o
                 <<[op |-> "report", result |-> [id |-> task.id, full_name |-> task.full_name,
                                                duration |-> 0, stdout |-> <<>>, stderr |-> <<>>,
                                                status |-> Skipped(Unwrap(task.skip_reason))]],
                   [op |-> "start", id |-> task.id, task_name |-> name(task.full_name)]>>
    /\ tasks' = SubSeq(tasks, 1, Len(tasks) - 1)
    /\ UNCHANGED <<mirror, orphans, codec, tree, config, plan, pc, observed_tasks, completed_pids,
                   task_results, child, signal, budget>>

\* a task with a skip reason is popped: start, then report(skip_task(..))
AdmitSkip ==
    /\ pc = "admit"
    /\ AdmitCondition
    /\ tasks # <<>>
    /\ LET task == tasks[Len(tasks)]
       IN  /\ task.skip_reason # None
           /\ calls' = calls \o
                 <<[op |-> "start", id |-> task.id, task_name |-> name(task.full_name)],
                   [op |-> "report", result |-> skip_task(task, Unwrap(task.skip_reason))]>>
    /\ tasks' = SubSeq(tasks, 1, Len(tasks) - 1)
    /\ UNCHANGED <<mirror, orphans, codec, tree, config, plan, pc, observed_tasks, completed_pids,
                   task_results, child, signal, budget>>

\* a task without skip reason is popped: start, launch, observe, insert; the
\* fork returns one of pids
AdmitLaunchWith(pids) ==
    /\ pc = "admit"
    /\ AdmitCondition
    /\ tasks # <<>>
    /\ LET task == tasks[Len(tasks)]
       IN  /\ task.skip_reason = None
           /\ calls' = Append(calls, [op |-> "start", id |-> task.id,
                                      task_name |-> name(task.full_name)])
           /\ \E pid \in pids :
                 /\ child' = [child EXCEPT ![task.id] = launch(pid)]
                 /\ observed_tasks' = insert(observed_tasks, pid, observe(task, pid))
    /\ tasks' = SubSeq(tasks, 1, Len(tasks) - 1)
    /\ UNCHANGED <<mirror, orphans, codec, tree, config, plan, pc, completed_pids, task_results,
                   signal, budget>>

\* the fork returns a pid no process of this run has had
AdmitLaunch == AdmitLaunchWith(FreePids)

\* the fork returns a pid the operating system has recycled
AdmitLaunchReused == AdmitLaunchWith(ReusablePids)

\* mutant: the admission loop may end with a free slot and a pending task
AdmitEndEarly ==
    /\ pc = "admit"
    /\ pc' = "poll"
    /\ UNCHANGED <<mirror, orphans, codec, tree, config, plan, tasks, observed_tasks,
                   completed_pids, task_results, calls, child, signal, budget>>

\* the admission loop ends: the map is full, or tasks.pop() is None
AdmitEnd ==
    /\ pc = "admit"
    /\ ~AdmitCondition \/ tasks = <<>>
    /\ pc' = "poll"
    /\ UNCHANGED <<mirror, orphans, codec, tree, config, plan, tasks, observed_tasks, completed_pids,
                   task_results, calls, child, signal, budget>>

\* the readiness events the kernel holds for the registered pipes: a pipe is
\* readable when bytes are buffered and read-closed when no write end is open
PipeEvents ==
    {[token |-> make_token(p, src),
      readable |-> child[observed_tasks[p].id].pipes[src] # <<>>,
      read_closed |-> ~WritersOpen(child[observed_tasks[p].id], src)] :
        p \in DOMAIN observed_tasks, src \in Sources}

Registered(ot, src) ==
    CASE src = "Stdout" -> ot.stdout_pipe
      [] src = "Stderr" -> ot.stderr_pipe
      [] src = "Report" -> ot.report_pipe

Ready ==
    {e \in PipeEvents :
        /\ Registered(observed_tasks[split_token(e.token)[1]], split_token(e.token)[2])
        /\ e.readable \/ e.read_closed}
    \cup (IF signal THEN {[token |-> SIGNAL_TOKEN, readable |-> TRUE,
                           read_closed |-> FALSE]}
          ELSE {})

\* Events::with_capacity(jobs * 2)
Capacity == jobs * 2

\* pipe.read(&mut buf): up to BufSize bytes leave the kernel buffer
ReadPipe(c, src) == [data |-> Take(c.pipes[src], BufSize),
                     c |-> [c EXCEPT !.pipes[src] = Drop(@, BufSize)]]

\* the receiving end is dropped: what the kernel still buffers is discarded
DropPipe(c, src) == [c EXCEPT !.pipes[src] = <<>>]

\* nothing written yet on the driver's stdout and stderr
NoOutput == [Stdout |-> <<>>, Stderr |-> <<>>]

\* mutant: the lines are written and pos stays where it was
display_linesAgain(buf, pos) ==
    LET nl == {i \in (pos + 1)..Len(buf) : buf[i] = Newline}
    IN  IF nl = {} THEN [out |-> <<>>, pos |-> pos]
        ELSE LET i == CHOOSE x \in nl : \A y \in nl : y <= x
             IN  [out |-> SubSeq(buf, pos + 1, i), pos |-> pos]

\* display_lines(wrt, buf, pos): the bytes from pos up to and including the
\* last newline are written, and pos moves just past that newline
display_lines(buf, pos) ==
    LET nl == {i \in (pos + 1)..Len(buf) : buf[i] = Newline}
    IN  IF nl = {} THEN [out |-> <<>>, pos |-> pos]
        ELSE LET i == CHOOSE x \in nl : \A y \in nl : y <= x
             IN  [out |-> SubSeq(buf, pos + 1, i), pos |-> i]

\* flush_output(wrt, buf, pos): what follows pos is written with a newline
\* after it, and pos moves to the end of buf
flush_output(buf, pos) ==
    IF pos < Len(buf)
    THEN [out |-> SubSeq(buf, pos + 1, Len(buf)) \o <<Newline>>, pos |-> Len(buf)]
    ELSE [out |-> <<>>, pos |-> pos]

\* the Stdout arm of the event loop
HandleStdout(st, e, pid) ==
    LET ot == st.obs[pid]
        doread == e.readable /\ ot.stdout_pipe
        rd == ReadPipe(st.ch[ot.id], "Stdout")
        ot1 == IF doread THEN [ot EXCEPT !.stdout_buf = @ \o rd.data] ELSE ot
        c1 == IF doread THEN rd.c ELSE st.ch[ot.id]
        dl == IF doread /\ st.nocapture
              THEN display_lines(ot1.stdout_buf, ot1.stdout_offset)
              ELSE [out |-> <<>>, pos |-> ot1.stdout_offset]
        ot2 == [ot1 EXCEPT !.stdout_offset = dl.pos]
        fl == IF e.read_closed /\ st.nocapture
              THEN flush_output(ot2.stderr_buf, ot2.stdout_offset)
              ELSE [out |-> <<>>, pos |-> ot2.stdout_offset]
        ot3 == IF e.read_closed
               THEN [ot2 EXCEPT !.stdout_offset = fl.pos, !.stdout_pipe = FALSE]
               ELSE ot2
        c2 == IF e.read_closed THEN DropPipe(c1, "Stdout") ELSE c1
    IN  [st EXCEPT !.obs[pid] = ot3, !.ch[ot.id] = c2,
                   !.mirror.Stdout = @ \o dl.out \o fl.out]

\* mutant: under nocapture what is read is mirrored, not captured
HandleStderrUncaptured(st, e, pid) ==
    LET ot == st.obs[pid]
        doread == e.readable /\ ot.stderr_pipe
        rd == ReadPipe(st.ch[ot.id], "Stderr")
        ot1 == IF doread /\ ~st.nocapture
               THEN [ot EXCEPT !.stderr_buf = @ \o rd.data] ELSE ot
        c1 == IF doread THEN rd.c ELSE st.ch[ot.id]
        ot2 == IF e.read_closed THEN [ot1 EXCEPT !.stderr_pipe = FALSE] ELSE ot1
        c2 == IF e.read_closed THEN DropPipe(c1, "Stderr") ELSE c1
    IN  [st EXCEPT !.obs[pid] = ot2, !.ch[ot.id] = c2,
                   !.mirror.Stderr = @ \o (IF doread /\ st.nocapture THEN rd.data ELSE <<>>)]

\* the Stderr arm of the event loop
HandleStderr(st, e, pid) ==
    LET ot == st.obs[pid]
        doread == e.readable /\ ot.stderr_pipe
        rd == ReadPipe(st.ch[ot.id], "Stderr")
        ot1 == IF doread THEN [ot EXCEPT !.stderr_buf = @ \o rd.data] ELSE ot
        c1 == IF doread THEN rd.c ELSE st.ch[ot.id]
        dl == IF doread /\ st.nocapture
              THEN display_lines(ot1.stderr_buf, ot1.stderr_offset)
              ELSE [out |-> <<>>, pos |-> ot1.stderr_offset]
        ot2 == [ot1 EXCEPT !.stderr_offset = dl.pos]
        fl == IF e.read_closed /\ st.nocapture
              THEN flush_output(ot2.stderr_buf, ot2.stderr_offset)
              ELSE [out |-> <<>>, pos |-> ot2.stderr_offset]
        ot3 == IF e.read_closed
               THEN [ot2 EXCEPT !.stderr_offset = fl.pos, !.stderr_pipe = FALSE]
               ELSE ot2
        c2 == IF e.read_closed THEN DropPipe(c1, "Stderr") ELSE c1
    IN  [st EXCEPT !.obs[pid] = ot3, !.ch[ot.id] = c2,
                   !.mirror.Stderr = @ \o dl.out \o fl.out]

\* the Report arm of the event loop: one read, one try_decode
HandleReport(st, e, pid) ==
    LET ot == st.obs[pid]
        doread == e.readable /\ ot.report_pipe
        rd == ReadPipe(st.ch[ot.id], "Report")
        dec == try_decode(append(ot.report_decoder, rd.data))
        ot1 == IF doread THEN [ot EXCEPT !.report_decoder = dec.dec] ELSE ot
        c1 == IF doread THEN rd.c ELSE st.ch[ot.id]
        calls1 == IF doread /\ dec.res # None
                  THEN Append(st.calls, [op |-> "stage", id |-> ot.id,
                                         full_name |-> ot.full_name,
                                         stage_rep |-> Unwrap(dec.res)])
                  ELSE st.calls
        ot2 == IF e.read_closed THEN [ot1 EXCEPT !.report_pipe = FALSE] ELSE ot1
        c2 == IF e.read_closed THEN DropPipe(c1, "Report") ELSE c1
    IN  IF doread /\ dec.panic
        THEN [st EXCEPT !.panic = TRUE]
        ELSE [st EXCEPT !.obs[pid] = ot2, !.ch[ot.id] = c2, !.calls = calls1]

\* mutant: exit(1) without killing any process group
HandleSignalNoKill(st) == [st EXCEPT !.exit = TRUE]

\* the signal arm: every live child's process group is killed, then exit(1)
HandleSignal(st) ==
    [st EXCEPT !.ch = [i \in DOMAIN st.ch |->
                          IF \E p \in DOMAIN st.obs : st.obs[p].id = i
                          THEN killpg(st.ch[i]) ELSE st.ch[i]],
               !.exit = TRUE]

\* the body of "for event in &events"
HandleEvent(st, e) ==
    IF e.token = SIGNAL_TOKEN THEN HandleSignal(st)
    ELSE LET pid == split_token(e.token)[1]
             src == split_token(e.token)[2]
         IN  IF pid \notin DOMAIN st.obs
             THEN [st EXCEPT !.panic = TRUE]
             ELSE CASE src = "Stdout" -> HandleStdout(st, e, pid)
                    [] src = "Stderr" -> HandleStderr(st, e, pid)
                    [] src = "Report" -> HandleReport(st, e, pid)

\* the events of one poll are handled in the order of their tokens
RECURSIVE ProcessEvents(_, _)
ProcessEvents(st, evs) ==
    IF evs = {} \/ st.panic \/ st.exit THEN st
    ELSE LET e == CHOOSE x \in evs : \A y \in evs : x.token <= y.token
         IN  CHOOSE r \in {ProcessEvents(st1, evs \ {e}) : st1 \in {HandleEvent(st, e)}} : TRUE

\* what the event loop reads and writes, with config.nocapture as given
LoopState(nocapture) ==
    [obs |-> observed_tasks, ch |-> child, calls |-> calls, mirror |-> mirror,
     nocapture |-> nocapture, panic |-> FALSE, exit |-> FALSE]

\* poll.poll(&mut events, Some(poll_timeout)) and the event loop: the poll
\* returns evs, taken from the events that are ready, as many of them as the
\* capacity allows
PollFrom(ready, evs) ==
    /\ pc = "poll"
    /\ evs \subseteq ready
    /\ Cardinality(evs) = Min(Capacity, Cardinality(ready))
    /\ \E st \in {ProcessEvents(LoopState(config.nocapture), evs)} :
           /\ observed_tasks' = st.obs
           /\ child' = st.ch
           /\ calls' = st.calls
           /\ mirror' = st.mirror
           /\ pc' = IF st.exit THEN "exited"
                    ELSE IF st.panic THEN "panicked"
                    ELSE "reap"
    /\ signal' = (signal /\ SIGNAL_TOKEN \notin {e.token : e \in evs})
    /\ UNCHANGED <<orphans, codec, tree, config, plan, tasks, completed_pids,
                   task_results, budget>>

\* the ready events are those of the pipes the supervisor holds
Poll(evs) == PollFrom(Ready, evs)

\* the process of child j holds duplicates of the receiving ends of child
\* i's pipes: it was forked while the task of i was live
Inherits(j, i) ==
    \E a, b \in DOMAIN calls :
        /\ a < b
        /\ calls[a].op = "start" /\ calls[a].id = i
        /\ calls[b].op = "start" /\ calls[b].id = j
        /\ \A k \in 1..b : calls[k].op = "report" => calls[k].result.id # i

\* the hangups the kernel still holds for the registrations that outlive
\* their task, as long as a process holds the receiving end
OrphanEvents ==
    {[token |-> o.token, readable |-> FALSE, read_closed |-> TRUE] :
        o \in {x \in orphans :
                  \E j \in Forked : Inherits(j, x.id) /\ GroupAlive(child[j])}}

\* the ready events are those of every registration the kernel holds
PollInherit(evs) == PollFrom(Ready \cup OrphanEvents, evs)

\* waitpid(pid, WNOHANG) on the child: its exit is collected once
waitpid(c) ==
    IF c.reaped THEN [tag |-> "ECHILD"]
    ELSE CASE c.st = "exited" -> [tag |-> "Exited", code |-> c.code]
           [] c.st = "signaled" -> [tag |-> "Signaled", sig |-> "SIGSEGV"]
           [] c.st = "killed" -> [tag |-> "Signaled", sig |-> "SIGKILL"]
           [] OTHER -> [tag |-> "StillAlive"]

\* mutant: every exit, also with code 0, is a Failure
StatusOfWaitExitFails(ws, duration) ==
    CASE ws.tag = "Exited" ->
             Some([status |-> Failure(ws.code), duration |-> duration])
      [] ws.tag = "Signaled" ->
             Some([status |-> Signaled(ws.sig), duration |-> duration])
      [] OTHER -> None

\* the status waitpid's answer maps to, None for a child still alive
StatusOfWait(ws, duration) ==
    CASE ws.tag = "Exited" ->
             Some([status |-> IF ws.code = 0 THEN Success ELSE Failure(ws.code),
                   duration |-> duration])
      [] ws.tag = "Signaled" ->
             Some([status |-> Signaled(ws.sig), duration |-> duration])
      [] OTHER -> None

\* mutant: a child still alive is killed whatever the time elapsed
ExpiredAlways(maybe_status, duration) == maybe_status = None

\* mutant: the deadline is looked at before the child's exit
ExpiredDeadlineFirst(maybe_status, duration) == duration >= timeout

\* maybe_status.is_none() && duration >= timeout
Expired(maybe_status, duration) == maybe_status = None /\ duration >= timeout

\* mutant: the timeout kills the child alone, not its process group
TimeoutKillPidOnly(c) ==
    [c EXCEPT !.st = IF c.st = "running" THEN "killed" ELSE c.st, !.half = <<>>]

\* the process group the timeout kills (killpg on the child's pid)
TimeoutKill(c) == killpg(c)

\* the reaping step for one live task whose status is unset
ReapTask(ot, c) ==
    LET duration == ot.elapsed
        ws == waitpid(c)
        maybe_status == StatusOfWait(ws, duration)
        expired == Expired(maybe_status, duration)
    IN  [ot |-> [ot EXCEPT !.status_and_duration =
                     IF expired THEN Some([status |-> Timeout, duration |-> duration])
                     ELSE maybe_status],
         c |-> IF expired THEN TimeoutKill(c)
               ELSE IF ws.tag \in {"Exited", "Signaled"} THEN [c EXCEPT !.reaped = TRUE]
               ELSE c,
         panic |-> ws.tag = "ECHILD"]

\* mutant: a task is retired as soon as its status is set
RetirableOnStatus(ot) == ot.status_and_duration # None

\* the pattern that pushes a pid onto completed_pids
Retirable(ot) ==
    /\ ot.status_and_duration # None
    /\ ~ot.stdout_pipe
    /\ ~ot.stderr_pipe

\* mutant: waitpid and the deadline are looked at again for every live task
ReapAgain ==
    /\ pc = "reap"
    /\ LET unset == DOMAIN observed_tasks
           reaped == [p \in unset |->
                         ReapTask(observed_tasks[p], child[observed_tasks[p].id])]
           obs1 == [p \in DOMAIN observed_tasks |->
                       IF p \in unset THEN reaped[p].ot ELSE observed_tasks[p]]
       IN  /\ observed_tasks' = obs1
           /\ child' = [i \in DOMAIN child |->
                           IF \E p \in unset : observed_tasks[p].id = i
                           THEN reaped[CHOOSE p \in unset : observed_tasks[p].id = i].c
                           ELSE child[i]]
           /\ \E order \in Orders({p \in DOMAIN obs1 : Retirable(obs1[p])}) :
                 completed_pids' = completed_pids \o order
           /\ pc' = IF \E p \in unset : reaped[p].panic THEN "panicked" ELSE "retire"
    /\ UNCHANGED <<mirror, orphans, codec, tree, config, plan, tasks, task_results, calls, signal, budget>>

\* for (pid, observed_task) in observed_tasks.iter_mut(): the map is visited
\* in an order of its own
Reap ==
    /\ pc = "reap"
    /\ LET unset == {p \in DOMAIN observed_tasks :
                        observed_tasks[p].status_and_duration = None}
           reaped == [p \in unset |->
                         ReapTask(observed_tasks[p], child[observed_tasks[p].id])]
           obs1 == [p \in DOMAIN observed_tasks |->
                       IF p \in unset THEN reaped[p].ot ELSE observed_tasks[p]]
       IN  /\ observed_tasks' = obs1
           /\ child' = [i \in DOMAIN child |->
                           IF \E p \in unset : observed_tasks[p].id = i
                           THEN reaped[CHOOSE p \in unset : observed_tasks[p].id = i].c
                           ELSE child[i]]
           /\ \E order \in Orders({p \in DOMAIN obs1 : Retirable(obs1[p])}) :
                 completed_pids' = completed_pids \o order
           /\ pc' = IF \E p \in unset : reaped[p].panic THEN "panicked" ELSE "retire"
    /\ UNCHANGED <<mirror, orphans, codec, tree, config, plan, tasks, task_results, calls, signal, budget>>

\* mutant: the CompletedTask carries the leaf's name instead of the path
CompletedTaskLeafName(ot) ==
    [id |-> ot.id, full_name |-> <<ot.full_name[Len(ot.full_name)]>>,
     duration |-> Unwrap(ot.status_and_duration).duration,
     stdout |-> ot.stdout_buf, stderr |-> ot.stderr_buf,
     status |-> Unwrap(ot.status_and_duration).status]

\* the CompletedTask built at retirement
CompletedTask(ot) ==
    [id |-> ot.id, full_name |-> ot.full_name,
     duration |-> Unwrap(ot.status_and_duration).duration,
     stdout |-> ot.stdout_buf, stderr |-> ot.stderr_buf,
     status |-> Unwrap(ot.status_and_duration).status]

\* mutant: a retired task is pushed onto the results and not reported
RECURSIVE RetireAllUnreported(_, _)
RetireAllUnreported(st, pids) ==
    IF pids = <<>> THEN st
    ELSE LET pid == Head(pids)
             st1 == [obs |-> remove(st.obs, pid),
                     ch |-> [st.ch EXCEPT ![st.obs[pid].id].pipes.Report = <<>>],
                     calls |-> st.calls,
                     results |-> Append(st.results, CompletedTask(st.obs[pid]))]
         IN  CHOOSE r \in {RetireAllUnreported(x, Tail(pids)) : x \in {st1}} : TRUE

\* mutant: a completed task is put at the front of the results
RECURSIVE RetireAllPrepend(_, _)
RetireAllPrepend(st, pids) ==
    IF pids = <<>> THEN st
    ELSE LET pid == Head(pids)
             completed_task == CompletedTask(st.obs[pid])
             st1 == [obs |-> remove(st.obs, pid),
                     ch |-> [st.ch EXCEPT ![st.obs[pid].id].pipes.Report = <<>>],
                     calls |-> Append(st.calls, [op |-> "report",
                                                 result |-> completed_task]),
                     results |-> <<completed_task>> \o st.results]
         IN  CHOOSE r \in {RetireAllPrepend(x, Tail(pids)) : x \in {st1}} : TRUE

\* for pid in completed_pids.iter(): remove, report, push
RECURSIVE RetireAll(_, _)
RetireAll(st, pids) ==
    IF pids = <<>> THEN st
    ELSE LET pid == Head(pids)
             completed_task == CompletedTask(st.obs[pid])
             st1 == [obs |-> remove(st.obs, pid),
                     ch |-> [st.ch EXCEPT ![st.obs[pid].id].pipes.Report = <<>>],
                     calls |-> Append(st.calls, [op |-> "report",
                                                 result |-> completed_task]),
                     results |-> Append(st.results, completed_task)]
         IN  CHOOSE r \in {RetireAll(x, Tail(pids)) : x \in {st1}} : TRUE

\* the retirement loop; orphaned are the registrations that stay in the
\* kernel though the ObservedTask and its pipes are dropped
RetireWith(orphaned) ==
    /\ pc = "retire"
    /\ \E st \in {RetireAll([obs |-> observed_tasks, ch |-> child, calls |-> calls,
                             results |-> task_results], completed_pids)} :
           /\ observed_tasks' = st.obs
           /\ child' = st.ch
           /\ calls' = st.calls
           /\ task_results' = st.results
    /\ completed_pids' = <<>>
    /\ pc' = "loop"
    /\ orphans' = orphans \cup orphaned
    /\ UNCHANGED <<mirror, codec, tree, config, plan, tasks, signal, budget>>

\* a registration ends when the supervisor closes the receiving end
Retire == RetireWith({})

\* the registrations of the pipes still held at retirement whose receiving
\* end some process forked later holds too: closing the supervisor's
\* descriptor does not end them
Orphaned ==
    UNION {{[token |-> make_token(completed_pids[k], src),
             id |-> observed_tasks[completed_pids[k]].id] :
               src \in {x \in Sources : Registered(observed_tasks[completed_pids[k]], x)}} :
           k \in {n \in DOMAIN completed_pids :
                     \E j \in Forked : Inherits(j, observed_tasks[completed_pids[n]].id)}}

RetireInherit == RetireWith(Orphaned)

-----------------------------------------------------------------------------
(* The specification.                                                      *)

InitWith(c, p, b) ==
    /\ tree = None
    /\ config = c
    /\ plan = p
    /\ pc = "start"
    /\ tasks = <<>>
    /\ observed_tasks = <<>>
    /\ completed_pids = <<>>
    /\ task_results = <<>>
    /\ calls = <<>>
    /\ child = [i \in 1..Len(p) |-> NoChild]
    /\ signal = FALSE
    /\ budget = b
    /\ codec = None
    /\ orphans = {}
    /\ mirror = NoOutput

Init == \E c \in Configs, p \in Plans : InitWith(c, p, MaxOps)

Supervisor ==
    \/ Begin
    \/ LoopEnter
    \/ Finish
    \/ AdmitSkip
    \/ AdmitLaunch
    \/ AdmitEnd
    \/ \E evs \in SUBSET Ready : Poll(evs)
    \/ Reap
    \/ Retire

Children ==
    \E i \in DOMAIN child :
        \/ \E src \in {"Stdout", "Stderr"}, n \in WriteSizes : ChildWrite(i, src, n)
        \/ \E s \in StageReports : ChildStageHeader(i, s)
        \/ ChildStagePayload(i)
        \/ \E code \in {0, 1} : ChildExit(i, code)
        \/ ChildCrash(i)
        \/ DescSpawn(i)
        \/ DescClose(i)
        \/ DescExit(i)

Next == Supervisor \/ Children \/ Tick \/ SignalArrives

Spec == Init /\ [][Next]_vars

\* the runs of a single launched task, whose children may do more
OneLaunched(p) == Cardinality({i \in DOMAIN p : p[i].skip_reason = None}) <= 1

InitIO == \E c \in Configs, p \in {q \in Plans : OneLaunched(q)} : InitWith(c, p, MaxOpsOne)

SpecIO == InitIO /\ [][Next]_vars

\* StageStatus, with its payloads
StageStatuses ==
    {[tag |-> "Success"], [tag |-> "Failure", code |-> 42],
     [tag |-> "Skipped", reason |-> "r"]}

\* mutant: a skipped stage is taken for a success
StatusFromSkippedOk(s) ==
    CASE s.tag = "Success" -> Success
      [] s.tag = "Failure" -> Failure(s.code)
      [] s.tag = "Skipped" -> Success

\* impl From<StageStatus> for Status
StatusFrom(s) ==
    CASE s.tag = "Success" -> Success
      [] s.tag = "Failure" -> Failure(s.code)
      [] s.tag = "Skipped" -> Skipped(s.reason)

\* the default method Report::stage: the CompletedTask it hands to report
stage(full_name, stage_rep) ==
    [full_name |-> Append(full_name, stage_rep.stage_name),
     duration |-> stage_rep.duration,
     stdout |-> <<>>,
     stderr |-> <<>>,
     status |-> StatusFrom(stage_rep.status)]

\* the frames a reporter may be handed, and the paths of their tasks
StageInputs ==
    [stage_name : {"s1", "s2"}, status : StageStatuses, duration : {0, 1}]

StagePaths == {<<"t">>, <<"s", "a">>}

\* a reporter that keeps the default method is handed frames
InitStage ==
    /\ tree = None
    /\ config = [timeout |-> None, jobs |-> None, nocapture |-> FALSE]
    /\ plan = <<>>
    /\ pc = "stage"
    /\ tasks = <<>>
    /\ observed_tasks = <<>>
    /\ completed_pids = <<>>
    /\ task_results = <<>>
    /\ calls = <<>>
    /\ child = <<>>
    /\ signal = FALSE
    /\ budget = MaxStageCalls
    /\ codec = None
    /\ orphans = {}
    /\ mirror = NoOutput

\* report.stage(&full_name, stage_rep) on the default method, which calls
\* self.report(&completed_task)
StageDefault(full_name, stage_rep) ==
    /\ pc = "stage"
    /\ budget > 0
    /\ calls' = calls \o <<[op |-> "stage", full_name |-> full_name,
                            stage_rep |-> stage_rep],
                           [op |-> "report", result |-> stage(full_name, stage_rep)]>>
    /\ budget' = budget - 1
    /\ UNCHANGED <<mirror, orphans, codec, tree, config, plan, pc, tasks, observed_tasks,
                   completed_pids, task_results, child, signal>>

StageNext == \E full_name \in StagePaths, stage_rep \in StageInputs :
                 StageDefault(full_name, stage_rep)

SpecStage == InitStage /\ [][StageNext]_vars

\* poll.poll(&mut events, Some(poll_timeout)).expect("failed to poll") with
\* events of capacity 0: epoll_wait rejects maxevents = 0 with EINVAL, kqueue
\* returns no event (Poll)
PollFails ==
    /\ pc = "poll"
    /\ Capacity = 0
    /\ pc' = "panicked"
    /\ UNCHANGED <<mirror, orphans, codec, tree, config, plan, tasks, observed_tasks,
                   completed_pids, task_results, calls, child, signal, budget>>

\* the runs with --jobs 0, next to those of one job at a time
JobsConfigs ==
    {[timeout |-> Some(1), jobs |-> Some(0), nocapture |-> FALSE],
     [timeout |-> Some(1), jobs |-> Some(1), nocapture |-> FALSE]}

InitZeroJobs == \E c \in JobsConfigs, p \in Plans : InitWith(c, p, MaxOps)

ZeroJobsNext == Next \/ PollFails

SpecZeroJobs == InitZeroJobs /\ [][ZeroJobsNext]_vars

\* the runs of a single launched task under --nocapture, whose body prints
\* lines and exits
InitNoCapture ==
    \E p \in {q \in Plans : OneLaunched(q)} :
        InitWith([timeout |-> None, jobs |-> None, nocapture |-> TRUE], p, MaxOpsOne)

NoCaptureNext ==
    \/ Supervisor
    \/ \E i \in DOMAIN child :
           \/ \E src \in {"Stdout", "Stderr"}, data \in Texts : ChildWriteText(i, src, data)
           \/ \E code \in {0, 1} : ChildExit(i, code)

SpecNoCapture == InitNoCapture /\ [][NoCaptureNext]_vars

\* the runs of a single launched task whose body may also write frames that
\* are no stage reports
GarbageNext == Next \/ \E i \in 1..MaxPlan : ChildStageGarbage(i)

SpecGarbage == InitIO /\ [][GarbageNext]_vars

\* the runs in which the operating system recycles pids: a skipped task,
\* then one task more than there are jobs, so that a task is admitted while
\* others are live; the test bodies do nothing but return or panic
InitReuse ==
    InitWith([timeout |-> None, jobs |-> None, nocapture |-> FALSE],
             [i \in 1..(NumCpus + 2) |->
                 [full_name |-> <<"b">>,
                  skip_reason |-> IF i = 1 THEN Some("r") ELSE None]],
             0)

ReuseNext ==
    \/ Supervisor
    \/ AdmitLaunchReused
    \/ \E i \in DOMAIN child, code \in {0, 1} : ChildExit(i, code)

SpecReuse == InitReuse /\ [][ReuseNext]_vars

\* the runs in which the children hold what fork gave them: a child forked
\* while other tasks are live holds duplicates of the receiving ends of their
\* pipes, and a registration of the poll lasts as long as a process holds
\* the receiving end.  A skipped task, then as many tasks as there are jobs;
\* the test bodies write to stdout and stderr, return or panic
InitInherit ==
    InitWith([timeout |-> None, jobs |-> None, nocapture |-> FALSE],
             [i \in 1..(NumCpus + 1) |->
                 [full_name |-> <<"b">>,
                  skip_reason |-> IF i = 1 THEN Some("r") ELSE None]],
             MaxOpsOne)

InheritNext ==
    \/ Begin
    \/ LoopEnter
    \/ Finish
    \/ AdmitSkip
    \/ AdmitLaunch
    \/ AdmitEnd
    \/ \E evs \in SUBSET (Ready \cup OrphanEvents) : PollInherit(evs)
    \/ Reap
    \/ RetireInherit
    \/ \E i \in DOMAIN child :
          \/ \E src \in {"Stdout", "Stderr"} : ChildWrite(i, src, 1)
          \/ ChildExit(i, 0)

SpecInherit == InitInherit /\ [][InheritNext]_vars

\* the runs of one job at a time in which no termination signal is sent to
\* the driver, under fair scheduling of the loop: the supervisor keeps
\* running, and the clock keeps advancing while the supervisor polls; the
\* children and their descendants run as their programs see fit
InitFair ==
    \E c \in {d \in Configs : d.jobs = Some(1)}, p \in Plans : InitWith(c, p, MaxOps)

FairNext == Supervisor \/ Children \/ Tick

FairSpec ==
    /\ InitFair
    /\ [][FairNext]_vars
    /\ WF_vars(Supervisor)
    /\ SF_vars(Tick)

\* the runs of one job at a time in which the clock is followed for as long
\* as a task is live, also after its status is settled
ClockNext == Supervisor \/ Children \/ TickAll

SpecClock == InitFair /\ [][ClockNext]_vars

\* the runs of the plan builder alone: default_main holds a tree and a
\* Config, and calls make_plan
InitPlan ==
    /\ tree \in Trees
    /\ config \in PlanConfigs
    /\ plan = <<>>
    /\ pc = "main"
    /\ tasks = <<>>
    /\ observed_tasks = <<>>
    /\ completed_pids = <<>>
    /\ task_results = <<>>
    /\ calls = <<>>
    /\ child = <<>>
    /\ signal = FALSE
    /\ budget = 0
    /\ codec = None
    /\ orphans = {}
    /\ mirror = NoOutput

\* let plan = execution::make_plan(&config, tree)
MakePlan ==
    /\ pc = "main"
    /\ plan' = make_plan(config, tree)
    /\ pc' = "planned"
    /\ UNCHANGED <<mirror, orphans, codec, tree, config, tasks, observed_tasks, completed_pids,
                   task_results, calls, child, signal, budget>>

SpecPlan == InitPlan /\ [][MakePlan]_vars

\* the runs of the codec alone (the setting of stream_decoder_is_correct): a
\* writer serializes stage reports into a byte stream, the stream is appended
\* to a StreamDecoder in chunks of any size, and try_decode is called until
\* it returns None after each chunk
InitCodec ==
    /\ tree = None
    /\ config = [timeout |-> None, jobs |-> None, nocapture |-> FALSE]
    /\ plan = <<>>
    /\ pc = "codec"
    /\ tasks = <<>>
    /\ observed_tasks = <<>>
    /\ completed_pids = <<>>
    /\ task_results = <<>>
    /\ calls = <<>>
    /\ child = <<>>
    /\ signal = FALSE
    /\ budget = 0
    /\ codec = [sent |-> <<>>, wire |-> <<>>, fed |-> 0, chunks |-> <<>>,
                dec |-> NewDecoder, out |-> <<>>, drained |-> TRUE, panic |-> FALSE]
    /\ orphans = {}
    /\ mirror = NoOutput

\* serialize_and_write(&mut buf, s)
CodecWrite(s) ==
    /\ pc = "codec"
    /\ Len(codec.sent) < MaxFrames
    /\ codec' = [codec EXCEPT !.sent = Append(@, s),
                              !.wire = serialize_and_write(@, s)]
    /\ UNCHANGED <<mirror, orphans, tree, config, plan, pc, tasks, observed_tasks, completed_pids,
                   task_results, calls, child, signal, budget>>

\* dec.append(chunk): the next n bytes of the stream
CodecAppend(n) ==
    /\ pc = "codec"
    /\ codec.drained
    /\ n \in 1..Len(codec.wire)
    /\ codec' = [codec EXCEPT !.dec = append(@, Take(codec.wire, n)),
                              !.wire = Drop(@, n),
                              !.fed = @ + n,
                              !.chunks = Append(@, n),
                              !.drained = FALSE]
    /\ UNCHANGED <<mirror, orphans, tree, config, plan, pc, tasks, observed_tasks, completed_pids,
                   task_results, calls, child, signal, budget>>

\* one call of dec.try_decode()
CodecDecode ==
    /\ pc = "codec"
    /\ ~codec.drained
    /\ ~codec.panic
    /\ \E r \in {try_decode(codec.dec)} :
          codec' = [codec EXCEPT !.dec = r.dec,
                                 !.out = IF r.res = None THEN @ ELSE Append(@, Unwrap(r.res)),
                                 !.drained = (r.res = None /\ ~r.panic),
                                 !.panic = r.panic]
    /\ UNCHANGED <<mirror, orphans, tree, config, plan, pc, tasks, observed_tasks, completed_pids,
                   task_results, calls, child, signal, budget>>

CodecNext ==
    \/ \E s \in StageReports : CodecWrite(s)
    \/ \E n \in 1..(MaxFrames * (HeaderLen + 1)) : CodecAppend(n)
    \/ CodecDecode

SpecCodec == InitCodec /\ [][CodecNext]_vars

\* the bytes a test body may write to the stage descriptor by itself: a zero
\* (a length header of an empty payload, or part of one), a one, the
\* payload of a StageReport, and a byte that is none
RawBytes == {0, 1, 11, 99}

\* the test body writes a byte to the stage descriptor without
\* serialize_and_write
CodecWriteRaw(b) ==
    /\ pc = "codec"
    /\ Len(codec.dec.buf) + Len(codec.wire) < MaxRaw
    /\ codec' = [codec EXCEPT !.wire = Append(@, b)]
    /\ UNCHANGED <<mirror, orphans, tree, config, plan, pc, tasks, observed_tasks, completed_pids,
                   task_results, calls, child, signal, budget>>

\* the runs of the codec on the bytes of any writer
CodecRawNext ==
    \/ \E b \in RawBytes : CodecWriteRaw(b)
    \/ \E n \in 1..MaxRaw : CodecAppend(n)
    \/ CodecDecode

SpecCodecRaw == InitCodec /\ [][CodecRawNext]_vars

\* default_main: the exit code of the driver, None while it runs.  The
\* results of execute are dropped and default_main returns, so main returns
\* and the process exits 0; exit(1) is the signal arm's, 101 a panic's
ExitCode ==
    CASE pc = "returned" -> Some(0)
      [] pc = "exited" -> Some(1)
      [] pc = "panicked" -> Some(101)
      [] OTHER -> None

-----------------------------------------------------------------------------
(* What the claims speak of.                                               *)

Starts(i) == {k \in DOMAIN calls : calls[k].op = "start" /\ calls[k].id = i}
Stages(i) == {k \in DOMAIN calls : calls[k].op = "stage" /\ calls[k].id = i}
Reports(i) == {k \in DOMAIN calls : calls[k].op = "report" /\ calls[k].result.id = i}
Inits == {k \in DOMAIN calls : calls[k].op = "init"}
Dones == {k \in DOMAIN calls : calls[k].op = "done"}
Results(i) == {k \in DOMAIN task_results : task_results[k].id = i}
SkippedTasks == {i \in DOMAIN plan : plan[i].skip_reason # None}
LaunchedTasks == {i \in DOMAIN plan : plan[i].skip_reason = None}

\* the frames handed to stage for task i, in the order of the calls
StageFrames(i) ==
    LET IsStage(c) == c.op = "stage" /\ c.id = i
        sel == SelectSeq(calls, IsStage)
    IN  [k \in DOMAIN sel |-> sel[k].stage_rep]

\* the children forked and not yet retired
LiveChildren == {i \in Forked : Results(i) = {}}

TypeOK ==
    /\ pc \in {"main", "planned", "start", "loop", "admit", "poll", "reap", "retire",
               "returned", "exited", "panicked", "codec", "stage"}
    /\ Cardinality(DOMAIN observed_tasks) <= MaxPlan

-----------------------------------------------------------------------------
(* C1 *)

\* C1: in every reachable state the live map holds at most jobs entries, and
\* so do the children forked and not yet retired; a task with a skip reason
\* never has an entry in the map nor a child.
C1_LiveAtMostJobs ==
    /\ Cardinality(DOMAIN observed_tasks) <= jobs
    /\ Cardinality(LiveChildren) <= jobs
    /\ \A p \in DOMAIN observed_tasks : observed_tasks[p].id \in LaunchedTasks
    /\ \A i \in SkippedTasks : i \notin Forked

\* the map is full while a task is still pending
C1_Witness ==
    /\ pc = "poll"
    /\ Cardinality(DOMAIN observed_tasks) = jobs
    /\ tasks # <<>>

(* C2 *)

\* C2: the reporter's calls are ordered: init is the first call and the only
\* init; a task's start precedes its stage calls and its report, and its
\* stage calls precede its report; done is called at most once, is the last
\* call, and has been called when execute has returned.
C2_CallOrder ==
    /\ pc # "start" => calls # <<>> /\ calls[1].op = "init"
    /\ Cardinality(Inits) <= 1
    /\ \A i \in DOMAIN plan :
          /\ \A k \in Stages(i) \cup Reports(i) : \E j \in Starts(i) : j < k
          /\ \A k \in Stages(i) : \A j \in Reports(i) : k < j
    /\ \A k \in Dones : k = Len(calls)
    /\ pc = "returned" <=> Dones # {}

\* execute has returned after a stage call and the reports of two tasks
C2_Witness ==
    /\ pc = "returned"
    /\ \E i \in DOMAIN plan : Stages(i) # {} /\ Reports(i) # {}
    /\ \E i, j \in DOMAIN plan : i # j /\ Reports(i) # {} /\ Reports(j) # {}

(* C3 *)

\* C3: when done has been called, every task of the plan has had exactly one
\* start call, carrying its name, and exactly one report call, carrying its
\* full_name.
C3_StartAndReportOnce ==
    Dones # {} =>
        \A i \in DOMAIN plan :
            /\ Cardinality(Starts(i)) = 1
            /\ \A k \in Starts(i) : calls[k].task_name = name(plan[i].full_name)
            /\ Cardinality(Reports(i)) = 1
            /\ \A k \in Reports(i) : calls[k].result.full_name = plan[i].full_name
            /\ Cardinality({k \in DOMAIN calls : /\ calls[k].op = "start"
                                                 /\ calls[k].task_name = name(plan[i].full_name)})
                 = Cardinality({j \in DOMAIN plan : plan[j].full_name = plan[i].full_name})

\* done has been called for a plan of a skipped and a launched task
C3_Witness ==
    /\ Dones # {}
    /\ SkippedTasks # {}
    /\ LaunchedTasks # {}

(* C4 *)

\* C4: every entry of task_results carries the full_name of a task of the
\* plan, and no task of the plan has two entries.
C4_ResultsFromPlan ==
    /\ \A k \in DOMAIN task_results :
          /\ task_results[k].id \in DOMAIN plan
          /\ task_results[k].full_name = plan[task_results[k].id].full_name
    /\ \A i \in DOMAIN plan : Cardinality(Results(i)) <= 1

\* two tasks of the same name each have their entry
C4_Witness ==
    /\ Len(task_results) = 2
    /\ task_results[1].full_name = task_results[2].full_name

(* C5 *)

\* C5: a task with skip reason r is never forked and never enters the live
\* map; its start call is followed at once by its report call, whose
\* CompletedTask has status Skipped(r), duration 0 and empty stdout and stderr.
C5_SkippedNeverForked ==
    \A i \in SkippedTasks :
        /\ child[i].st = "none"
        /\ \A p \in DOMAIN observed_tasks : observed_tasks[p].id # i
        /\ \A k \in Starts(i) : k + 1 \in Reports(i)
        /\ \A k \in Reports(i) :
              calls[k].result = [id |-> i, full_name |-> plan[i].full_name,
                                 duration |-> 0, stdout |-> <<>>, stderr |-> <<>>,
                                 status |-> Skipped(Unwrap(plan[i].skip_reason))]

\* a skipped task has been reported while a child is live
C5_Witness ==
    /\ \E i \in SkippedTasks : Reports(i) # {}
    /\ DOMAIN observed_tasks # {}

(* C6 *)

\* C6: when execute has returned, task_results holds one entry for every task
\* of the plan, the skipped ones included, so it is as long as the plan.
C6_ResultsHoldEveryTask ==
    pc = "returned" =>
        /\ Len(task_results) = Len(plan)
        /\ \A i \in DOMAIN plan : Results(i) # {}

(* C8 *)

\* C8: once a task has status Timeout no process of its child's process
\* group is running, neither the child nor a descendant, and this stays so
\* after the task is retired.
C8_TimeoutKillsGroup ==
    /\ \A p \in DOMAIN observed_tasks :
          /\ observed_tasks[p].status_and_duration # None
          /\ Unwrap(observed_tasks[p].status_and_duration).status = Timeout
          => ~GroupAlive(child[observed_tasks[p].id])
    /\ \A k \in DOMAIN task_results :
          task_results[k].status = Timeout => ~GroupAlive(child[task_results[k].id])

\* a task was retired with status Timeout after its child had spawned a
\* descendant
C8_Witness ==
    \E k \in DOMAIN task_results :
        /\ task_results[k].status = Timeout
        /\ child[task_results[k].id].st = "killed"
        /\ child[task_results[k].id].desc = "dead"

(* C10 *)

\* C10: the stdout and the stderr of every CompletedTask of task_results are
\* exactly the bytes the child's process group wrote to the pipe, in order.
C10_OutputFaithful ==
    \A k \in DOMAIN task_results :
        /\ task_results[k].stdout = child[task_results[k].id].written.Stdout
        /\ task_results[k].stderr = child[task_results[k].id].written.Stderr

(* C7 *)

\* the child of task i has ended of its own making
ExitedOnItsOwn(i) == i \in Forked /\ child[i].st \in {"exited", "signaled"}

\* task i has been retired with status Timeout
RetiredWithTimeout(i) ==
    \E k \in Results(i) : task_results[k].status = Timeout

C9_Terminates ==
    <>(/\ pc = "returned"
       /\ tasks = <<>>
       /\ DOMAIN observed_tasks = {}
       /\ \A i \in DOMAIN plan : Starts(i) # {} /\ Reports(i) # {}
       /\ Dones = {Len(calls)})

(* C11 *)

\* C11: when a task's report call is made, every stage frame its child wrote
\* in full has been handed to stage, in the child's order.
C11_FramesDelivered ==
    \A i \in LaunchedTasks :
        Reports(i) # {} => StageFrames(i) = child[i].frames

(* C12 *)

\* C12: for each task, the frames handed to stage are, in the order of the
\* calls, a prefix of the frames its child wrote.
C12_StagePrefix ==
    LET IsPrefix(a, b) == Len(a) <= Len(b) /\ a = SubSeq(b, 1, Len(a))
    IN  \A i \in Forked : IsPrefix(StageFrames(i), child[i].frames)

\* two frames of a child have been handed to stage
C12_Witness ==
    \E i \in Forked : StageFrames(i) = StageSeq

(* C13 *)

\* the status the reaping step is to give a child in state c after elapsed
StatusFor(c, elapsed) ==
    CASE c.st = "exited" /\ c.code = 0 -> Some(Success)
      [] c.st = "exited" /\ c.code # 0 -> Some(Failure(c.code))
      [] c.st = "signaled" -> Some(Signaled("SIGSEGV"))
      [] c.st = "running" /\ elapsed >= timeout -> Some(Timeout)
      [] c.st = "running" /\ elapsed < timeout -> None

\* the status of a live task, None when unset
StatusOf(ot) ==
    IF ot.status_and_duration = None THEN None
    ELSE Some(Unwrap(ot.status_and_duration).status)

\* C13: the reaping step gives every live task whose status is unset the
\* status its child's state and the elapsed time call for (Success for exit
\* code 0, Failure(c) for exit code c # 0, Signaled for a signal, Timeout for
\* a child still running at the timeout, unset otherwise) and leaves the
\* other statuses alone; and no CompletedTask ever has status Failure(0).
C13_StatusAtReaping ==
    /\ [][pc = "reap" /\ pc' = "retire" =>
            \A p \in DOMAIN observed_tasks :
                /\ p \in DOMAIN observed_tasks'
                /\ StatusOf(observed_tasks'[p]) =
                      IF observed_tasks[p].status_and_duration = None
                      THEN StatusFor(child[observed_tasks[p].id], observed_tasks[p].elapsed)
                      ELSE StatusOf(observed_tasks[p])]_vars
    /\ [](\A k \in DOMAIN task_results : task_results[k].status # Failure(0))

\* two tasks have been retired, one with Failure(1) and one with Timeout
C13_Witness ==
    /\ \E k \in DOMAIN task_results : task_results[k].status = Failure(1)
    /\ \E k \in DOMAIN task_results : task_results[k].status = Timeout

(* C14 *)

\* C14: when execute has returned, the driver exits 0 if every reported task
\* has an is_ok status, and non-zero if some task has not.
C14_ExitCodeTellsFailure ==
    pc = "returned" =>
        (ExitCode = Some(0) <=>
            \A k \in DOMAIN calls :
                calls[k].op = "report" => is_ok(calls[k].result.status))

(* C15 *)

\* the leaves of t from left to right, depth first: for each its
\* root-to-leaf path and the options of the nodes on it, root first
RECURSIVE LeavesOf(_, _, _)
RECURSIVE LeavesOfAll(_, _, _)
LeavesOfAll(ts, path, opts) ==
    IF ts = <<>> THEN <<>>
    ELSE LeavesOf(Head(ts), path, opts) \o LeavesOfAll(Tail(ts), path, opts)

LeavesOf(t, path, opts) ==
    IF t.kind = "Leaf"
    THEN <<[path |-> Append(path, t.name), opts |-> Append(opts, t.options)]>>
    ELSE LeavesOfAll(t.tests, Append(path, t.name), Append(opts, t.options))

Leaves == LeavesOf(tree, <<>>, <<>>)

\* how many entries of the sequence s of records carry x in field f
CountPath(s, x) == Cardinality({k \in DOMAIN s : s[k].path = x})
CountName(s, x) == Cardinality({k \in DOMAIN s : s[k].full_name = x})

\* C15: each task of the plan carries the root-to-leaf path of a leaf, no
\* path is carried by more tasks than there are leaves of that path, and
\* with no filter and no skip filters every leaf has its task.
C15_TasksAreLeaves ==
    pc = "planned" =>
        /\ \A k \in DOMAIN plan :
              /\ \E j \in DOMAIN Leaves : Leaves[j].path = plan[k].full_name
              /\ CountName(plan, plan[k].full_name) <= CountPath(Leaves, plan[k].full_name)
        /\ (config.filter = None /\ config.skip_filters = <<>>) =>
              /\ Len(plan) = Len(Leaves)
              /\ \A j \in DOMAIN Leaves :
                    CountName(plan, Leaves[j].path) = CountPath(Leaves, Leaves[j].path)

\* a plan for a tree with two leaves of the same path, one task each
C15_Witness ==
    /\ pc = "planned"
    /\ Len(plan) = 2
    /\ plan[1].full_name = plan[2].full_name
    /\ Len(plan[1].full_name) = 2

(* C16 *)

\* the sequence a can be had from b by leaving entries of b out
RECURSIVE IsSubSeq(_, _)
IsSubSeq(a, b) ==
    IF a = <<>> THEN TRUE
    ELSE IF b = <<>> THEN FALSE
    ELSE IF Head(a) = Head(b) THEN IsSubSeq(Tail(a), Tail(b))
    ELSE IsSubSeq(a, Tail(b))

\* C16: the tasks of the plan come in the order, depth first and left to
\* right, of their leaves in the tree: the paths of the plan are the paths
\* of the leaves with some left out.
C16_PlanInLeafOrder ==
    pc = "planned" =>
        IsSubSeq([k \in DOMAIN plan |-> plan[k].full_name],
                 [j \in DOMAIN Leaves |-> Leaves[j].path])

\* a filter has left out the second of three leaves of three paths
C16_Witness ==
    /\ pc = "planned"
    /\ Len(Leaves) = 3
    /\ Len(plan) = 2
    /\ plan[1].full_name = Leaves[1].path
    /\ plan[2].full_name = Leaves[3].path
    /\ Leaves[1].path # Leaves[3].path
    /\ Leaves[2].path \notin {Leaves[1].path, Leaves[3].path}

(* C17 *)

\* the leaf l is let in: there is no filter or a name on its path holds the
\* filter, and no name on its path holds a skip filter
LetIn(l) ==
    /\ \/ config.filter = None
       \/ \E c \in DOMAIN l.path : contains(l.path[c], Unwrap(config.filter))
    /\ \A c \in DOMAIN l.path : \A k \in DOMAIN config.skip_filters :
          ~contains(l.path[c], config.skip_filters[k])

\* C17: the plan holds the leaves let in and no other: its paths are the
\* paths of the leaves whose own name or an ancestor's holds the filter (or
\* all, without a filter) and none of whose names on the path holds a skip
\* filter, each name being looked at on its own.
C17_PlanIsLeavesLetIn ==
    pc = "planned" =>
        LET letin == SelectSeq(Leaves, LetIn)
        IN  [k \in DOMAIN plan |-> plan[k].full_name] = [j \in DOMAIN letin |-> letin[j].path]

\* a leaf is in the plan for an ancestor's name, its own not holding the
\* filter, and another leaf has been left out
C17_Witness ==
    /\ pc = "planned"
    /\ config.filter # None
    /\ Len(plan) < Len(Leaves)
    /\ \E k \in DOMAIN plan :
          ~contains(plan[k].full_name[Len(plan[k].full_name)], Unwrap(config.filter))

(* C18 *)

\* C18: no task of the plan has on its path a name that holds a skip
\* filter, whatever the filter.
C18_SkipFiltersPrune ==
    pc = "planned" =>
        \A k \in DOMAIN plan : \A c \in DOMAIN plan[k].full_name :
            \A f \in DOMAIN config.skip_filters :
                ~contains(plan[k].full_name[c], config.skip_filters[f])

\* a suite whose name holds both the filter and a skip filter has been
\* pruned, and a leaf beside it is in the plan
C18_Witness ==
    /\ pc = "planned"
    /\ config.filter # None
    /\ plan # <<>>
    /\ tree.kind = "Fork"
    /\ \E j \in DOMAIN tree.tests :
          /\ tree.tests[j].kind = "Fork"
          /\ contains(tree.tests[j].name, Unwrap(config.filter))
          /\ skip_filter_applies(config, tree.tests[j])

(* C19 *)

\* the skip reason set nearest to the leaf among the options of a path
\* (root first), None when no node of the path sets one
RECURSIVE Nearest(_)
Nearest(opts) ==
    IF opts = <<>> THEN None
    ELSE IF opts[Len(opts)].skip_reason # None THEN opts[Len(opts)].skip_reason
    ELSE Nearest(SubSeq(opts, 1, Len(opts) - 1))

\* C19: the skip_reason of each task of the plan is its leaf's own when the
\* leaf sets one, else that of the nearest suite above it that sets one,
\* else unset.
C19_OptionsInherited ==
    pc = "planned" =>
        LET letin == SelectSeq(Leaves, LetIn)
        IN  /\ Len(plan) = Len(letin)
            /\ \A k \in DOMAIN plan : plan[k].skip_reason = Nearest(letin[k].opts)

\* under a root that sets a reason, one leaf has the reason of the suite
\* between, one its own, one the root's
C19_Witness ==
    /\ pc = "planned"
    /\ tree.options.skip_reason = Some("r")
    /\ \E k \in DOMAIN plan : plan[k].skip_reason = Some("m")
    /\ \E k \in DOMAIN plan : plan[k].skip_reason = Some("l")
    /\ \E k \in DOMAIN plan : plan[k].skip_reason = Some("r")

(* C20 *)

\* C20: for every pid in 1..MaxPid, the pids of the live children among
\* them, and every source, split_token gives back the pid and the source
\* make_token was given.
C20_TokenRoundTrip ==
    \A pid \in (1..MaxPid) \cup DOMAIN observed_tasks : \A source \in Sources :
        split_token(make_token(pid, source)) = <<pid, source>>

\* the poll has an event ready whose token splits into a live pid and the
\* Report source
C20_Witness ==
    \E e \in Ready : \E p \in DOMAIN observed_tasks :
        /\ e.token = make_token(p, "Report")
        /\ split_token(e.token) = <<p, "Report">>


-----------------------------------------------------------------------------
(* C21 *)

\* the frames of the reports s that lie whole within the first n bytes of the
\* stream the writer produced
RECURSIVE WholeFrames(_, _)
WholeFrames(s, n) ==
    IF s = <<>> \/ n < HeaderLen + Len(serialize(Head(s))) THEN <<>>
    ELSE <<Head(s)>> \o WholeFrames(Tail(s), n - HeaderLen - Len(serialize(Head(s))))

-----------------------------------------------------------------------------
(* C22 *)

\* C22: when the supervisor receives a termination signal (the poll delivers
\* the signal's event) it exits with a non-zero code, and in the state it
\* exits in no process of the group of any live child is running (SIGKILL
\* was sent to each group); done has not been called, and from then on no
\* start, stage, report or done call is made, nothing is appended to the
\* results and execute does not return.
C22_SignalCancels ==
    /\ [][(signal /\ ~signal') => pc' = "exited"]_vars
    /\ [](pc = "exited" =>
            /\ \A p \in DOMAIN observed_tasks :
                   ~GroupAlive(child[observed_tasks[p].id])
            /\ Dones = {}
            /\ ExitCode # None /\ Unwrap(ExitCode) # 0)
    /\ [][pc = "exited" =>
            pc' = "exited" /\ calls' = calls /\ task_results' = task_results]_vars

\* the signal was handled while two children were running, one of them with
\* a descendant in its group: all of them were killed
C22_Witness ==
    /\ pc = "exited"
    /\ Cardinality(DOMAIN observed_tasks) = 2
    /\ \A p \in DOMAIN observed_tasks : child[observed_tasks[p].id].st = "killed"
    /\ \E p \in DOMAIN observed_tasks : child[observed_tasks[p].id].desc = "dead"


-----------------------------------------------------------------------------
(* C23 *)

\* C23: no task name appears twice in the reporter's calls: two start calls
\* carry different names and two report calls carry different full_names.
C23_NamesDistinct ==
    \A j, k \in DOMAIN calls :
        j < k =>
            /\ (calls[j].op = "start" /\ calls[k].op = "start") =>
                   calls[j].task_name # calls[k].task_name
            /\ (calls[j].op = "report" /\ calls[k].op = "report") =>
                   calls[j].result.full_name # calls[k].result.full_name


-----------------------------------------------------------------------------
(* C24 *)

\* C24: a live task is removed from the live map only in a state where its
\* stdout pipe, its stderr pipe and its stage pipe are all absent and its
\* status_and_duration is set.
C24_RetiredWithAllPipesClosed ==
    [][\A p \in DOMAIN observed_tasks :
          p \notin DOMAIN observed_tasks' =>
              /\ observed_tasks[p].status_and_duration # None
              /\ ~observed_tasks[p].stdout_pipe
              /\ ~observed_tasks[p].stderr_pipe
              /\ ~observed_tasks[p].report_pipe]_vars


-----------------------------------------------------------------------------
(* C25 *)

\* the unread part of the decoder's buffer holds a complete frame: a length
\* header and as many bytes as it tells
CompleteFrame(dec) ==
    /\ Len(dec.buf) - dec.offset >= HeaderLen
    /\ Len(dec.buf) - dec.offset >=
           HeaderLen + from_be_bytes(SubSeq(dec.buf, dec.offset + 1, dec.offset + HeaderLen))

\* C25: try_decode returns a StageReport exactly when the unread part of the
\* buffer holds a complete frame; otherwise it returns None and leaves the
\* buffer and the offset as they were; on success the buffer is kept and
\* the offset advances by the header and the payload length; the offset
\* never exceeds the length of the buffer.
C25_TryDecodeFrame ==
    pc = "codec" =>
        /\ codec.dec.offset <= Len(codec.dec.buf)
        /\ (try_decode(codec.dec).res # None) <=> CompleteFrame(codec.dec)
        /\ ~codec.panic /\ ~try_decode(codec.dec).panic
        /\ ~CompleteFrame(codec.dec) => try_decode(codec.dec).dec = codec.dec
        /\ CompleteFrame(codec.dec) =>
              /\ try_decode(codec.dec).dec.buf = codec.dec.buf
              /\ try_decode(codec.dec).dec.offset =
                     codec.dec.offset + HeaderLen
                     + from_be_bytes(SubSeq(codec.dec.buf, codec.dec.offset + 1,
                                            codec.dec.offset + HeaderLen))


-----------------------------------------------------------------------------
(* C26 *)

\* C26: when the payload of a complete frame on a child's stage pipe cannot
\* be decoded as a StageReport the supervisor does not fail: it never
\* panics, whatever the children write to their stage pipes.
C26_GarbageTolerated == pc # "panicked"


-----------------------------------------------------------------------------
(* C27 *)

\* C27: whenever a newly forked child is inserted into the live map its pid
\* is not already a key of the map: no step replaces the task of a live
\* entry, also when the operating system hands out again the pid of a child
\* that waitpid has reaped and whose task is still live.
C27_InsertNeverOverwrites ==
    [][\A p \in DOMAIN observed_tasks \cap DOMAIN observed_tasks' :
          observed_tasks'[p].id = observed_tasks[p].id]_vars


-----------------------------------------------------------------------------
(* C28 *)

\* C28: every readiness event whose token is not the signal token maps,
\* through split_token, to a pid that is a key of the live map when the
\* event is processed: no child token is the signal token, the kernel holds
\* no event for a pipe of a task that is not live, and the supervisor never
\* panics on the lookup.
C28_EventsOfLiveTasks ==
    /\ \A p \in DOMAIN observed_tasks, src \in Sources :
           make_token(p, src) # SIGNAL_TOKEN
    /\ \A e \in Ready \cup OrphanEvents :
           e.token # SIGNAL_TOKEN => split_token(e.token)[1] \in DOMAIN observed_tasks
    /\ pc # "panicked"


-----------------------------------------------------------------------------
(* C29 *)

\* the start calls made so far, in order
StartCalls == SelectSeq(calls, LAMBDA c : c.op = "start")

\* C29: tasks are admitted in plan order: at any time the names passed to
\* start are, in order, the names of the first tasks of the plan (the k-th
\* start is that of the k-th task), and when execute returns they are the
\* names of all the tasks of the plan, whatever the order in which the
\* children complete.
C29_AdmittedInPlanOrder ==
    /\ Len(StartCalls) <= Len(plan)
    /\ \A k \in DOMAIN StartCalls :
           /\ StartCalls[k].id = k
           /\ StartCalls[k].task_name = name(plan[k].full_name)
    /\ pc = "returned" => Len(StartCalls) = Len(plan)

\* two tasks of different names were started in plan order and the second
\* completed first
C29_Witness ==
    /\ pc = "returned"
    /\ Len(plan) = 2
    /\ plan[1].full_name # plan[2].full_name
    /\ Len(task_results) = 2
    /\ task_results[1].id = 2


-----------------------------------------------------------------------------
(* C30 *)

\* C30: admission is work-conserving: whenever the supervisor polls, that is
\* at the end of every admission step, either no task is pending or the live
\* map holds as many children as there are jobs; so the slot a retirement
\* frees is taken again before the next poll.
C30_WorkConserving ==
    pc = "poll" => (tasks = <<>> \/ Cardinality(DOMAIN observed_tasks) = jobs)

\* a slot freed by a retirement has been refilled: one task is in the
\* results, the next one is live, and the supervisor polls
C30_Witness ==
    /\ pc = "poll"
    /\ jobs = 1
    /\ Len(plan) = 2
    /\ Len(task_results) = 1
    /\ Cardinality(DOMAIN observed_tasks) = 1
    /\ \E p \in DOMAIN observed_tasks : observed_tasks[p].id = 2


-----------------------------------------------------------------------------
(* C31 *)

\* the CompletedTasks passed to report so far, in order
Reported ==
    [k \in 1..Len(SelectSeq(calls, LAMBDA c : c.op = "report")) |->
        SelectSeq(calls, LAMBDA c : c.op = "report")[k].result]

\* C31: the list returned by execute is in completion order: at any time
\* task_results is the sequence of the CompletedTasks passed to report,
\* restricted to the tasks present in task_results; so two tasks of the list
\* are in the order of their report calls and each entry equals what was
\* passed to report.
C31_ResultsInReportOrder ==
    task_results =
        SelectSeq(Reported,
                  LAMBDA r : \E k \in DOMAIN task_results : task_results[k].id = r.id)

\* two children completed in the order opposite to the plan's, with
\* different outcomes
C31_Witness ==
    /\ Len(task_results) = 2
    /\ task_results[1].id = 2
    /\ task_results[1].status # task_results[2].status
    /\ Len(Reported) = 2


-----------------------------------------------------------------------------
(* C32 *)

\* C32: once the status_and_duration of a live task is set no step changes
\* it as long as the task is live, no step collects the child's exit again,
\* and the step that retires the task reports that status and that
\* duration, which is the time elapsed when the status was settled and not
\* the time elapsed at retirement; a child killed by the supervisor is never
\* reaped.
C32_StatusSettledOnce ==
    /\ [][\A p \in DOMAIN observed_tasks :
             observed_tasks[p].status_and_duration # None =>
                 /\ child'[observed_tasks[p].id].reaped = child[observed_tasks[p].id].reaped
                 /\ p \in DOMAIN observed_tasks' =>
                        observed_tasks'[p].status_and_duration =
                            observed_tasks[p].status_and_duration
                 /\ p \notin DOMAIN observed_tasks' =>
                        \E k \in DOMAIN calls' :
                            /\ k > Len(calls)
                            /\ calls'[k].op = "report"
                            /\ calls'[k].result.id = observed_tasks[p].id
                            /\ calls'[k].result.status =
                                   Unwrap(observed_tasks[p].status_and_duration).status
                            /\ calls'[k].result.duration =
                                   Unwrap(observed_tasks[p].status_and_duration).duration]_vars
    /\ [](\A i \in Forked : child[i].st = "killed" => ~child[i].reaped)
    /\ [](\A p \in DOMAIN observed_tasks :
             observed_tasks[p].status_and_duration # None =>
                 Unwrap(observed_tasks[p].status_and_duration).duration
                     <= observed_tasks[p].elapsed)

\* a task timed out, its child was killed and not reaped, and time has
\* passed since: the task is still live and is about to be retired
C32_Witness ==
    /\ pc = "retire"
    /\ \E p \in DOMAIN observed_tasks :
          /\ observed_tasks[p].status_and_duration # None
          /\ Unwrap(observed_tasks[p].status_and_duration).status = Timeout
          /\ Unwrap(observed_tasks[p].status_and_duration).duration
                 < observed_tasks[p].elapsed
          /\ child[observed_tasks[p].id].st = "killed"
          /\ completed_pids = <<p>>

(* C33 *)

\* the bytes of buf before the offset
Mirrored(buf, offset) == SubSeq(buf, 1, offset)

\* what follows the offset holds no newline
NoLineLeft(buf, offset) == \A i \in (offset + 1)..Len(buf) : buf[i] # Newline

HangupOutput(buf, offset) ==
    display_lines(buf, offset).out
        \o flush_output(buf, display_lines(buf, offset).pos).out

\* C34: under nocapture, the step in which the hangup of a child's stdout
\* (resp. stderr) is handled appends to the driver's stdout (resp. stderr)
\* what was not yet mirrored of that same stream's buffer, followed by a
\* newline, and sets that stream's offset to the length of its buffer.
C34_HangupFlushesOwnTail ==
    [][config.nocapture =>
          \A pid \in DOMAIN observed_tasks \cap DOMAIN observed_tasks' :
              /\ (observed_tasks[pid].stdout_pipe /\ ~observed_tasks'[pid].stdout_pipe) =>
                     /\ mirror'.Stdout = mirror.Stdout
                            \o HangupOutput(observed_tasks'[pid].stdout_buf,
                                            observed_tasks[pid].stdout_offset)
                     /\ observed_tasks'[pid].stdout_offset
                            = Len(observed_tasks'[pid].stdout_buf)
              /\ (observed_tasks[pid].stderr_pipe /\ ~observed_tasks'[pid].stderr_pipe) =>
                     /\ mirror'.Stderr = mirror.Stderr
                            \o HangupOutput(observed_tasks'[pid].stderr_buf,
                                            observed_tasks[pid].stderr_offset)
                     /\ observed_tasks'[pid].stderr_offset
                            = Len(observed_tasks'[pid].stderr_buf)]_vars

(* C35 *)

\* the live map of the run without nocapture: the offsets are never moved
Captured(obs) ==
    [pid \in DOMAIN obs |-> [obs[pid] EXCEPT !.stdout_offset = 0, !.stderr_offset = 0]]

\* the locals of the event loop in the run without nocapture
CapturedLoopState ==
    [LoopState(FALSE) EXCEPT !.obs = Captured(observed_tasks), !.mirror = NoOutput]

\* the run without nocapture, given the events evs, makes the step too
SameWithoutNoCapture(evs) ==
    \E st \in {ProcessEvents(CapturedLoopState, evs)} :
        /\ st.obs = Captured(observed_tasks')
        /\ st.ch = child'
        /\ st.calls = calls'
        /\ st.panic = (pc' = "panicked")
        /\ st.exit = (pc' = "exited")
        /\ st.mirror = NoOutput

C36_StageForwardsToReport ==
    \A k \in DOMAIN calls :
        calls[k].op = "stage" =>
            /\ k + 1 \in DOMAIN calls
            /\ calls[k + 1].op = "report"
            /\ LET f == calls[k].stage_rep
                   r == calls[k + 1].result
               IN  /\ r.full_name = calls[k].full_name \o <<f.stage_name>>
                   /\ r.duration = f.duration
                   /\ r.stdout = <<>>
                   /\ r.stderr = <<>>
                   /\ r.status.tag = f.status.tag
                   /\ r.status.tag \in {"Success", "Failure", "Skipped"}
                   /\ f.status.tag = "Failure" => r.status = Failure(f.status.code)
                   /\ f.status.tag = "Skipped" => r.status = Skipped(f.status.reason)
                   /\ f.status.tag = "Success" => r.status = Success

\* a skipped stage and a failed stage have been forwarded
C36_Witness ==
    \E j, k \in DOMAIN calls :
        /\ calls[j].op = "stage" /\ calls[j].stage_rep.status.tag = "Skipped"
        /\ calls[j + 1].result.status = Skipped("r")
        /\ calls[k].op = "stage" /\ calls[k].stage_rep.status.tag = "Failure"
        /\ calls[k + 1].result.status = Failure(42)
        /\ calls[k + 1].result.full_name = <<"s", "a", "s2">>

(* C37 *)

\* C37: at a reaping step the child's exit takes precedence over the
\* deadline: a live task whose status is unset, whose child has exited or was
\* terminated by a signal, and whose elapsed time has reached the timeout
\* gets Success, Failure(c) or Signaled with that elapsed time as duration,
\* not Timeout, and no process of its group is killed.
C37_ExitBeatsDeadline ==
    [][(pc = "reap" /\ pc' = "retire") =>
          \A p \in DOMAIN observed_tasks :
              (/\ observed_tasks[p].status_and_duration = None
               /\ child[observed_tasks[p].id].st \in {"exited", "signaled"}
               /\ observed_tasks[p].elapsed >= timeout) =>
                  /\ observed_tasks'[p].status_and_duration # None
                  /\ Unwrap(observed_tasks'[p].status_and_duration).status =
                         (IF child[observed_tasks[p].id].st = "signaled"
                          THEN Signaled("SIGSEGV")
                          ELSE IF child[observed_tasks[p].id].code = 0 THEN Success
                          ELSE Failure(child[observed_tasks[p].id].code))
                  /\ Unwrap(observed_tasks'[p].status_and_duration).duration
                         = observed_tasks[p].elapsed
                  /\ child'[observed_tasks[p].id].st = child[observed_tasks[p].id].st
                  /\ child'[observed_tasks[p].id].desc = child[observed_tasks[p].id].desc]_vars

\* a task was retired as a success after the timeout, while a process of its
\* group lives on
C37_Witness ==
    \E k \in DOMAIN task_results :
        /\ task_results[k].status = Success
        /\ task_results[k].duration >= timeout
        /\ child[task_results[k].id].desc \in {"holding", "quiet"}

(* C38 *)

\* a step of the supervisor kills a process of the group of child i
KilledBySupervisor(i) ==
    /\ pc' # pc
    /\ \/ child[i].st = "running" /\ child'[i].st = "killed"
       \/ child[i].desc \in {"holding", "quiet"} /\ child'[i].desc = "dead"

\* a live task leaves the live map only with its status set and its stdout
\* and stderr pipes observed closed, and execute returns with no live task
LiveUntilClosed ==
    /\ \A p \in DOMAIN observed_tasks :
           p \notin DOMAIN observed_tasks' => Retirable(observed_tasks[p])
    /\ pc' = "returned" => DOMAIN observed_tasks = {}

\* as stated: once the status of a live task is set, no step of the
\* supervisor kills a process of its group.
C38_NeverKilledOnceSettled ==
    [][\A p \in DOMAIN observed_tasks :
          observed_tasks[p].status_and_duration # None =>
              ~KilledBySupervisor(observed_tasks[p].id)]_vars

\* C38: once the status of a live task is set, the only step of the
\* supervisor that kills a process of its group is the one that handles a
\* termination signal sent to the driver, after which the driver exits; the
\* reaping step kills on timeout only a group whose task has no status. The
\* task stays in the live map until its status is set and its stdout and
\* stderr pipes have been observed closed, execute does not return while a
\* task is live, and a task is live for as long as a descendant of its child
\* holds a write end.
C38_SettledTaskWaitsForPipes ==
    /\ [][/\ \A p \in DOMAIN observed_tasks :
                (/\ observed_tasks[p].status_and_duration # None
                 /\ KilledBySupervisor(observed_tasks[p].id)) => pc' = "exited"
           /\ LiveUntilClosed]_vars
    /\ [](\A i \in Forked :
              child[i].desc = "holding" =>
                  /\ pc # "returned"
                  /\ \E p \in DOMAIN observed_tasks : observed_tasks[p].id = i)

\* the exit of a child has been collected and its task holds the only slot,
\* a task pending, while a descendant holds the write ends
C38_Witness ==
    /\ pc = "poll"
    /\ jobs = 1
    /\ tasks # <<>>
    /\ \E p \in DOMAIN observed_tasks :
           /\ observed_tasks[p].status_and_duration # None
           /\ Unwrap(observed_tasks[p].status_and_duration).status = Success
           /\ child[observed_tasks[p].id].reaped
           /\ child[observed_tasks[p].id].desc = "holding"
           /\ observed_tasks[p].stdout_pipe

(* C39 *)

\* as stated: with config.jobs = Some(0) and a plan that is not empty, no
\* task is ever started, forked or reported, done is never called, and
\* execute never leaves its main loop: it neither returns nor ends otherwise.
C39_ZeroJobsNeverLeavesLoop ==
    (config.jobs = Some(0) /\ plan # <<>>) =>
        /\ \A k \in DOMAIN calls : calls[k].op \notin {"start", "stage", "report", "done"}
        /\ Forked = {}
        /\ observed_tasks = <<>>
        /\ task_results = <<>>
        /\ pc \notin {"returned", "panicked", "exited"}

\* C39: with config.jobs = Some(0) and a plan that is not empty, no task is
\* ever started, forked or reported, done is never called and execute never
\* returns, nor does a termination signal end the driver: the run stays in
\* the main loop or panics at a poll that fails.
C39_ZeroJobsStartsNothing ==
    (config.jobs = Some(0) /\ plan # <<>>) =>
        /\ \A k \in DOMAIN calls : calls[k].op = "init"
        /\ Forked = {}
        /\ observed_tasks = <<>>
        /\ task_results = <<>>
        /\ Len(tasks) \in {0, Len(plan)}
        /\ pc \in {"start", "loop", "admit", "poll", "reap", "retire", "panicked"}

\* with jobs = 0 the supervisor polls with every task of the plan pending
\* and a termination signal that it does not get to see
C39_Witness ==
    /\ config.jobs = Some(0)
    /\ Len(plan) = MaxPlan
    /\ pc = "poll"
    /\ Len(tasks) = Len(plan)
    /\ signal
    /\ calls = <<[op |-> "init", len |-> Len(plan)]>>

====
